---------------------------- MODULE Spec2Model ----------------------------
(***************************************************************************)
(* A model of python-maker-bot: the REPL of interface.rs (start_repl), the *)
(* generation client of api.rs (generate_code_with_history), the code      *)
(* extractor and import scanner of utils.rs and the execution engine of    *)
(* python_exec.rs (CodeExecutor).                                          *)
(*                                                                         *)
(* Texts (Rust String / &str) are sequences of one-character strings, so   *)
(* that trimming, prefix tests and the regular expressions of utils.rs     *)
(* are computed character by character.                                    *)
(***************************************************************************)
EXTENDS Integers, Sequences, FiniteSets, TLC

VARIABLES
    pc,                    \* where start_repl is: "prompt", "generate", "confirm",
                           \* "confirm_install", "install", "run", "exited"
    conversation_history,  \* interface.rs:63  Vec<Message>
    last_generated_code,   \* interface.rs:64  String
    metrics,               \* interface.rs:60  SessionMetrics
    code,                  \* interface.rs:187 the code of the cycle in progress
    deps,                  \* interface.rs:200 the dependencies of the cycle in progress
    hf_token,              \* the HF_TOKEN entry of the process environment
    now,                   \* the wall clock (Utc::now), in ticks
    files,                 \* the file system: path -> content, for the paths that exist
    api_call,              \* the generate_code_with_history call of the step just taken, if any
    exec_call,             \* the write_and_run / run_existing_script call of the step just taken, if any
    install_call,          \* the install_packages call of the step just taken, if any
    written,               \* the script paths written by write_and_run_with_mode, in order
    hist_before,           \* the history as it was before the user turn of this cycle was pushed
    pure_call              \* a function of utils.rs or the heuristic called on its own: argument, function, result

vars == <<pc, conversation_history, last_generated_code, metrics, code, deps,
          hf_token, now, files, api_call, exec_call, install_call, written,
          hist_before, pure_call>>

replVars == <<pc, conversation_history, last_generated_code, metrics, code, deps,
              api_call, hist_before>>

---------------------------------------------------------------------------
(* Bounds of the model *)

\* The requests one session makes (guards the counter total_requests).
MaxRequests == 2

\* The last instant of the wall clock, in ticks.
MaxClock == 2

\* The calls to the execution engine in the engine's own specification.
MaxRuns == 2

\* Clock ticks per second: Utc::now() is finer than the %S of the file name.
TicksPerSecond == 2

\* The length of the content of a fenced block, in characters.
MaxInner == 3

\* The lines of a code handed to the import scan.
MaxLines == 2

---------------------------------------------------------------------------
(* Texts *)

Min(S) == CHOOSE x \in S : \A y \in S : x <= y
Max(S) == CHOOSE x \in S : \A y \in S : x >= y

\* char::is_whitespace, for the characters the model uses
IsWs(c) == c \in {" ", "\n", "\t", "\r"}

\* str::trim
Trim(s) ==
    LET idx == {i \in 1..Len(s) : ~IsWs(s[i])}
    IN  IF idx = {} THEN <<>> ELSE SubSeq(s, Min(idx), Max(idx))

\* s[i..] starts with p
IsPrefixAt(s, i, p) ==
    /\ i >= 1
    /\ i + Len(p) - 1 <= Len(s)
    /\ \A k \in 1..Len(p) : s[i + k - 1] = p[k]

\* str::starts_with
StartsWith(s, p) == IsPrefixAt(s, 1, p)

\* str::contains
Contains(s, p) == \E i \in 1..(Len(s) + 1) : IsPrefixAt(s, i, p)

\* char::to_lowercase, for the characters the model uses
ToLower(c) ==
    CASE c = "O" -> "o"
      [] c = "N" -> "n"
      [] c = "Y" -> "y"
      [] OTHER  -> c

\* str::split_whitespace: the maximal runs of non-blank characters, in order
RECURSIVE SplitWhitespace(_)
SplitWhitespace(s) ==
    LET starts == {i \in 1..Len(s) : ~IsWs(s[i])}
    IN  IF starts = {} THEN <<>>
        ELSE LET b == Min(starts)
                 ends == {j \in b..Len(s) : j = Len(s) \/ IsWs(s[j + 1])}
                 e == Min(ends)
             IN  <<SubSeq(s, b, e)>> \o SplitWhitespace(SubSeq(s, e + 1, Len(s)))

\* The backtick character (written as a name: SANY reads no backtick in a string).
Backtick == "BACKTICK"
Fence == <<Backtick, Backtick, Backtick>>
PythonTag == <<"p", "y", "t", "h", "o", "n">>
NewlineFence == <<"\n">> \o Fence

\* The length of the run of whitespace of s that starts at j (greedy).
WsRunLen(s, j) ==
    LET stops == {m \in 0..(Len(s) - j + 1) : j + m > Len(s) \/ ~IsWs(s[j + m])}
    IN  IF j > Len(s) THEN 0 ELSE Min(stops)

\* The positions e >= c where a newline and a fence start: the ends of a lazy capture.
ClosesFrom(s, c) == {e \in c..Len(s) : IsPrefixAt(s, e, NewlineFence)}

\* The rest of the pattern, blanks, a newline, a lazy capture, a newline and a
\* fence, matched at j: the blanks give back characters from the longest run
\* until the rest matches; the capture is the shortest one.
RestCapture(s, j) ==
    LET m  == WsRunLen(s, j)
        ks == {k \in 0..(m - 1) : s[j + k] = "\n" /\ ClosesFrom(s, j + k + 1) # {}}
    IN  IF ks = {} THEN [found |-> FALSE, text |-> <<>>]
        ELSE LET c == j + Max(ks) + 1
                 e == Min(ClosesFrom(s, c))
             IN  [found |-> TRUE, text |-> SubSeq(s, c, e - 1)]

\* The whole pattern matched at i: a fence, an optional python tag (taken when
\* it is there, given back when the rest does not match after it), the rest.
CaptureAt(s, i) ==
    IF ~IsPrefixAt(s, i, Fence) THEN [found |-> FALSE, text |-> <<>>]
    ELSE LET withTag == IF IsPrefixAt(s, i + 3, PythonTag)
                        THEN RestCapture(s, i + 3 + Len(PythonTag))
                        ELSE [found |-> FALSE, text |-> <<>>]
         IN  IF withTag.found THEN withTag ELSE RestCapture(s, i + 3)

\* extract_python_code without the trim of the captured content
extract_python_code_Untrimmed(response) ==
    LET hits == {i \in 1..Len(response) : CaptureAt(response, i).found}
    IN  IF hits # {}
        THEN CaptureAt(response, Min(hits)).text
        ELSE Trim(response)

\* Regex::captures: the leftmost match
extract_python_code(response) ==
    LET hits == {i \in 1..Len(response) : CaptureAt(response, i).found}
    IN  IF hits # {}
        THEN Trim(CaptureAt(response, Min(hits)).text)
        ELSE Trim(response)

---------------------------------------------------------------------------
(* utils.rs: the import scan and the standard-library table *)

Letters ==
    {"a", "b", "c", "d", "e", "f", "g", "h", "i", "j", "k", "l", "m",
     "n", "o", "p", "q", "r", "s", "t", "u", "v", "w", "x", "y", "z",
     "A", "B", "C", "D", "E", "F", "G", "H", "I", "J", "K", "L", "M",
     "N", "O", "P", "Q", "R", "S", "T", "U", "V", "W", "X", "Y", "Z"}
Digits == {"0", "1", "2", "3", "4", "5", "6", "7", "8", "9"}

\* [a-zA-Z_]
IsIdentStart(c) == c \in Letters \cup {"_"}
\* [a-zA-Z0-9_]
IsIdentChar(c) == c \in Letters \cup Digits \cup {"_"}

\* The length of the longest run of identifier characters of s that starts at j.
IdentRunLen(s, j) ==
    LET stops == {m \in 0..(Len(s) - j + 1) : j + m > Len(s) \/ ~IsIdentChar(s[j + m])}
    IN  IF j > Len(s) THEN 0 ELSE Min(stops)

\* str::lines: the pieces between newlines, a final empty piece dropped, and
\* a carriage return at the end of a piece dropped.
RECURSIVE Lines(_)
Lines(s) ==
    IF s = <<>> THEN <<>>
    ELSE LET nl   == {i \in 1..Len(s) : s[i] = "\n"}
             cut  == IF nl = {} THEN Len(s) + 1 ELSE Min(nl)
             raw  == SubSeq(s, 1, cut - 1)
             line == IF raw # <<>> /\ raw[Len(raw)] = "\r"
                     THEN SubSeq(raw, 1, Len(raw) - 1) ELSE raw
         IN  <<line>> \o Lines(SubSeq(s, cut + 1, Len(s)))

ImportKw == <<"i", "m", "p", "o", "r", "t">>
FromKw == <<"f", "r", "o", "m">>

\* keyword, one or more blanks, an identifier, matched at the start of t:
\* where the identifier starts and how long it is (len 0: no match).
KeywordName(t, kw) ==
    LET j == Len(kw) + 1
        w == WsRunLen(t, j)
        b == j + w
    IN  IF StartsWith(t, kw) /\ w >= 1 /\ b <= Len(t) /\ IsIdentStart(t[b])
        THEN [at |-> b, len |-> IdentRunLen(t, b)]
        ELSE [at |-> 0, len |-> 0]

\* import_re without its ^ anchor: the pattern found anywhere in the line
ImportMatch_Unanchored(t) ==
    UNION {LET s == SubSeq(t, i, Len(t))
               m == KeywordName(s, ImportKw)
           IN  IF m.len > 0 THEN {SubSeq(s, m.at, m.at + m.len - 1)} ELSE {}
           : i \in 1..Len(t)}

\* import_re on a trimmed line: the captured package names (none or one)
ImportMatch(t) ==
    LET m == KeywordName(t, ImportKw)
    IN  IF m.len > 0 THEN {SubSeq(t, m.at, m.at + m.len - 1)} ELSE {}

\* from_import_re on a trimmed line: the name must be followed by one or more
\* blanks and the keyword import
FromImportMatch(t) ==
    LET m == KeywordName(t, FromKw)
        a == m.at + m.len
        w == WsRunLen(t, a)
    IN  IF m.len > 0 /\ w >= 1 /\ IsPrefixAt(t, a + w, ImportKw)
        THEN {SubSeq(t, m.at, m.at + m.len - 1)} ELSE {}

\* The names pushed line by line; sort and dedup make the vector the sorted
\* enumeration of this set.
extract_imports(text) ==
    LET ls == Lines(text)
    IN  UNION {ImportMatch(Trim(ls[i])) \cup FromImportMatch(Trim(ls[i])) : i \in 1..Len(ls)}

STDLIB_MODULES == {
    <<"a", "b", "c">>, <<"a", "i", "f", "c">>, <<"a", "r", "g", "p", "a", "r", "s", "e">>,
    <<"a", "r", "r", "a", "y">>, <<"a", "s", "t">>, <<"a", "s", "y", "n", "c", "h", "a", "t">>,
    <<"a", "s", "y", "n", "c", "i", "o">>, <<"a", "s", "y", "n", "c", "o", "r", "e">>,
    <<"a", "t", "e", "x", "i", "t">>, <<"a", "u", "d", "i", "o", "o", "p">>,
    <<"b", "a", "s", "e", "6", "4">>, <<"b", "d", "b">>,
    <<"b", "i", "n", "a", "s", "c", "i", "i">>, <<"b", "i", "n", "h", "e", "x">>,
    <<"b", "i", "s", "e", "c", "t">>, <<"b", "u", "i", "l", "t", "i", "n", "s">>,
    <<"b", "z", "2">>, <<"c", "a", "l", "e", "n", "d", "a", "r">>, <<"c", "g", "i">>,
    <<"c", "g", "i", "t", "b">>, <<"c", "h", "u", "n", "k">>, <<"c", "m", "a", "t", "h">>,
    <<"c", "m", "d">>, <<"c", "o", "d", "e">>, <<"c", "o", "d", "e", "c", "s">>,
    <<"c", "o", "d", "e", "o", "p">>, <<"c", "o", "l", "l", "e", "c", "t", "i", "o", "n", "s">>,
    <<"c", "o", "l", "o", "r", "s", "y", "s">>,
    <<"c", "o", "m", "p", "i", "l", "e", "a", "l", "l">>,
    <<"c", "o", "n", "c", "u", "r", "r", "e", "n", "t">>,
    <<"c", "o", "n", "f", "i", "g", "p", "a", "r", "s", "e", "r">>,
    <<"c", "o", "n", "t", "e", "x", "t", "l", "i", "b">>,
    <<"c", "o", "n", "t", "e", "x", "t", "v", "a", "r", "s">>, <<"c", "o", "p", "y">>,
    <<"c", "o", "p", "y", "r", "e", "g">>, <<"c", "r", "y", "p", "t">>, <<"c", "s", "v">>,
    <<"c", "t", "y", "p", "e", "s">>, <<"c", "u", "r", "s", "e", "s">>,
    <<"d", "a", "t", "a", "c", "l", "a", "s", "s", "e", "s">>,
    <<"d", "a", "t", "e", "t", "i", "m", "e">>, <<"d", "b", "m">>,
    <<"d", "e", "c", "i", "m", "a", "l">>, <<"d", "i", "f", "f", "l", "i", "b">>,
    <<"d", "i", "s">>, <<"d", "i", "s", "t", "u", "t", "i", "l", "s">>,
    <<"d", "o", "c", "t", "e", "s", "t">>, <<"e", "m", "a", "i", "l">>,
    <<"e", "n", "c", "o", "d", "i", "n", "g", "s">>, <<"e", "n", "u", "m">>,
    <<"e", "r", "r", "n", "o">>, <<"f", "a", "u", "l", "t", "h", "a", "n", "d", "l", "e", "r">>,
    <<"f", "c", "n", "t", "l">>, <<"f", "i", "l", "e", "c", "m", "p">>,
    <<"f", "i", "l", "e", "i", "n", "p", "u", "t">>, <<"f", "n", "m", "a", "t", "c", "h">>,
    <<"f", "r", "a", "c", "t", "i", "o", "n", "s">>, <<"f", "t", "p", "l", "i", "b">>,
    <<"f", "u", "n", "c", "t", "o", "o", "l", "s">>, <<"g", "c">>,
    <<"g", "e", "t", "o", "p", "t">>, <<"g", "e", "t", "p", "a", "s", "s">>,
    <<"g", "e", "t", "t", "e", "x", "t">>, <<"g", "l", "o", "b">>,
    <<"g", "r", "a", "p", "h", "l", "i", "b">>, <<"g", "r", "p">>, <<"g", "z", "i", "p">>,
    <<"h", "a", "s", "h", "l", "i", "b">>, <<"h", "e", "a", "p", "q">>, <<"h", "m", "a", "c">>,
    <<"h", "t", "m", "l">>, <<"h", "t", "t", "p">>, <<"i", "d", "l", "e", "l", "i", "b">>,
    <<"i", "m", "a", "p", "l", "i", "b">>, <<"i", "m", "g", "h", "d", "r">>, <<"i", "m", "p">>,
    <<"i", "m", "p", "o", "r", "t", "l", "i", "b">>, <<"i", "n", "s", "p", "e", "c", "t">>,
    <<"i", "o">>, <<"i", "p", "a", "d", "d", "r", "e", "s", "s">>,
    <<"i", "t", "e", "r", "t", "o", "o", "l", "s">>, <<"j", "s", "o", "n">>,
    <<"k", "e", "y", "w", "o", "r", "d">>, <<"l", "i", "b", "2", "t", "o", "3">>,
    <<"l", "i", "n", "e", "c", "a", "c", "h", "e">>, <<"l", "o", "c", "a", "l", "e">>,
    <<"l", "o", "g", "g", "i", "n", "g">>, <<"l", "z", "m", "a">>,
    <<"m", "a", "i", "l", "b", "o", "x">>, <<"m", "a", "i", "l", "c", "a", "p">>,
    <<"m", "a", "r", "s", "h", "a", "l">>, <<"m", "a", "t", "h">>,
    <<"m", "i", "m", "e", "t", "y", "p", "e", "s">>, <<"m", "m", "a", "p">>,
    <<"m", "o", "d", "u", "l", "e", "f", "i", "n", "d", "e", "r">>,
    <<"m", "s", "i", "l", "i", "b">>, <<"m", "s", "v", "c", "r", "t">>,
    <<"m", "u", "l", "t", "i", "p", "r", "o", "c", "e", "s", "s", "i", "n", "g">>,
    <<"n", "e", "t", "r", "c">>, <<"n", "i", "s">>, <<"n", "n", "t", "p", "l", "i", "b">>,
    <<"n", "u", "m", "b", "e", "r", "s">>, <<"o", "p", "e", "r", "a", "t", "o", "r">>,
    <<"o", "p", "t", "p", "a", "r", "s", "e">>, <<"o", "s">>,
    <<"o", "s", "s", "a", "u", "d", "i", "o", "d", "e", "v">>, <<"p", "a", "r", "s", "e", "r">>,
    <<"p", "a", "t", "h", "l", "i", "b">>, <<"p", "d", "b">>, <<"p", "i", "c", "k", "l", "e">>,
    <<"p", "i", "c", "k", "l", "e", "t", "o", "o", "l", "s">>, <<"p", "i", "p", "e", "s">>,
    <<"p", "k", "g", "u", "t", "i", "l">>, <<"p", "l", "a", "t", "f", "o", "r", "m">>,
    <<"p", "l", "i", "s", "t", "l", "i", "b">>, <<"p", "o", "p", "l", "i", "b">>,
    <<"p", "o", "s", "i", "x">>, <<"p", "o", "s", "i", "x", "p", "a", "t", "h">>,
    <<"p", "p", "r", "i", "n", "t">>, <<"p", "r", "o", "f", "i", "l", "e">>,
    <<"p", "s", "t", "a", "t", "s">>, <<"p", "t", "y">>, <<"p", "w", "d">>,
    <<"p", "y", "_", "c", "o", "m", "p", "i", "l", "e">>, <<"p", "y", "c", "l", "b", "r">>,
    <<"p", "y", "d", "o", "c">>, <<"q", "u", "e", "u", "e">>, <<"q", "u", "o", "p", "r", "i">>,
    <<"r", "a", "n", "d", "o", "m">>, <<"r", "e">>, <<"r", "e", "a", "d", "l", "i", "n", "e">>,
    <<"r", "e", "p", "r", "l", "i", "b">>, <<"r", "e", "s", "o", "u", "r", "c", "e">>,
    <<"r", "l", "c", "o", "m", "p", "l", "e", "t", "e", "r">>, <<"r", "u", "n", "p", "y">>,
    <<"s", "c", "h", "e", "d">>, <<"s", "e", "c", "r", "e", "t", "s">>,
    <<"s", "e", "l", "e", "c", "t">>, <<"s", "e", "l", "e", "c", "t", "o", "r", "s">>,
    <<"s", "h", "e", "l", "v", "e">>, <<"s", "h", "l", "e", "x">>,
    <<"s", "h", "u", "t", "i", "l">>, <<"s", "i", "g", "n", "a", "l">>, <<"s", "i", "t", "e">>,
    <<"s", "m", "t", "p", "d">>, <<"s", "m", "t", "p", "l", "i", "b">>,
    <<"s", "n", "d", "h", "d", "r">>, <<"s", "o", "c", "k", "e", "t">>,
    <<"s", "o", "c", "k", "e", "t", "s", "e", "r", "v", "e", "r">>, <<"s", "p", "w", "d">>,
    <<"s", "q", "l", "i", "t", "e", "3">>, <<"s", "s", "l">>, <<"s", "t", "a", "t">>,
    <<"s", "t", "a", "t", "i", "s", "t", "i", "c", "s">>, <<"s", "t", "r", "i", "n", "g">>,
    <<"s", "t", "r", "i", "n", "g", "p", "r", "e", "p">>, <<"s", "t", "r", "u", "c", "t">>,
    <<"s", "u", "b", "p", "r", "o", "c", "e", "s", "s">>, <<"s", "u", "n", "a", "u">>,
    <<"s", "y", "m", "b", "o", "l">>, <<"s", "y", "m", "t", "a", "b", "l", "e">>,
    <<"s", "y", "s">>, <<"s", "y", "s", "c", "o", "n", "f", "i", "g">>,
    <<"s", "y", "s", "l", "o", "g">>, <<"t", "a", "b", "n", "a", "n", "n", "y">>,
    <<"t", "a", "r", "f", "i", "l", "e">>, <<"t", "e", "l", "n", "e", "t", "l", "i", "b">>,
    <<"t", "e", "m", "p", "f", "i", "l", "e">>, <<"t", "e", "r", "m", "i", "o", "s">>,
    <<"t", "e", "s", "t">>, <<"t", "e", "x", "t", "w", "r", "a", "p">>,
    <<"t", "h", "r", "e", "a", "d", "i", "n", "g">>, <<"t", "i", "m", "e">>,
    <<"t", "i", "m", "e", "i", "t">>, <<"t", "k", "i", "n", "t", "e", "r">>,
    <<"t", "o", "k", "e", "n">>, <<"t", "o", "k", "e", "n", "i", "z", "e">>,
    <<"t", "o", "m", "l", "l", "i", "b">>, <<"t", "r", "a", "c", "e">>,
    <<"t", "r", "a", "c", "e", "b", "a", "c", "k">>,
    <<"t", "r", "a", "c", "e", "m", "a", "l", "l", "o", "c">>, <<"t", "t", "y">>,
    <<"t", "u", "r", "t", "l", "e">>, <<"t", "u", "r", "t", "l", "e", "d", "e", "m", "o">>,
    <<"t", "y", "p", "e", "s">>, <<"t", "y", "p", "i", "n", "g">>,
    <<"u", "n", "i", "c", "o", "d", "e", "d", "a", "t", "a">>,
    <<"u", "n", "i", "t", "t", "e", "s", "t">>, <<"u", "r", "l", "l", "i", "b">>, <<"u", "u">>,
    <<"u", "u", "i", "d">>, <<"v", "e", "n", "v">>, <<"w", "a", "r", "n", "i", "n", "g", "s">>,
    <<"w", "a", "v", "e">>, <<"w", "e", "a", "k", "r", "e", "f">>,
    <<"w", "e", "b", "b", "r", "o", "w", "s", "e", "r">>, <<"w", "i", "n", "r", "e", "g">>,
    <<"w", "i", "n", "s", "o", "u", "n", "d">>, <<"w", "s", "g", "i", "r", "e", "f">>,
    <<"x", "d", "r", "l", "i", "b">>, <<"x", "m", "l">>, <<"x", "m", "l", "r", "p", "c">>,
    <<"z", "i", "p", "a", "p", "p">>, <<"z", "i", "p", "f", "i", "l", "e">>,
    <<"z", "i", "p", "i", "m", "p", "o", "r", "t">>, <<"z", "l", "i", "b">>,
    <<"_", "t", "h", "r", "e", "a", "d">>
    }

is_stdlib(package) == package \in STDLIB_MODULES

\* CodeExecutor::detect_dependencies
detect_dependencies(text) == {pkg \in extract_imports(text) : ~is_stdlib(pkg)}

---------------------------------------------------------------------------
(* api.rs: the generation client *)

Message(role, content) == [role |-> role, content |-> content]

\* The content of the fixed system turn (one piece: its text is never read).
SystemContent == <<"You are an expert Python code generator. ...">>
SystemMessage == Message("system", SystemContent)

\* The HF_TOKEN entry of the environment: unset, set to a token, or set to a
\* value no header can hold.
TokenUnset == [set |-> FALSE, value |-> <<>>]
TokenValid == [set |-> TRUE, value |-> <<"h", "f", "_", "x">>]
TokenBadHeader == [set |-> TRUE, value |-> <<"h", "f", "\n">>]
EnvTokens == {TokenUnset, TokenValid, TokenBadHeader}

\* HeaderValue::from_str accepts visible ASCII, blanks and tabs only
HeaderValueOk(s) == \A i \in 1..Len(s) : s[i] \notin {"\n", "\r"}

\* Raw model replies: a python-tagged block that imports an external package, a
\* bare reply that imports another one, and an untagged block holding nothing.
RawFlask ==
    Fence \o PythonTag \o <<"\n", "i", "m", "p", "o", "r", "t", " ", "x", "\n">> \o Fence
RawBare == <<" ", "i", "m", "p", "o", "r", "t", " ", "y", "\n">>
RawEmpty == Fence \o <<"\n", "\n">> \o Fence
RawResponses == {RawFlask, RawBare, RawEmpty}

\* What the network and the endpoint do with one request.
NetOutcome(transport_ok, read_ok, status, json_ok, choices) ==
    [transport_ok |-> transport_ok, read_ok |-> read_ok, status |-> status,
     json_ok |-> json_ok, choices |-> choices]
NetOutcomes ==
    {NetOutcome(FALSE, FALSE, 0, FALSE, <<>>),
     NetOutcome(TRUE, FALSE, 200, FALSE, <<>>),
     NetOutcome(TRUE, TRUE, 500, FALSE, <<>>),
     NetOutcome(TRUE, TRUE, 200, FALSE, <<>>),
     NetOutcome(TRUE, TRUE, 200, TRUE, <<>>),
     NetOutcome(TRUE, TRUE, 200, TRUE,
                <<Message("assistant", RawBare), Message("assistant", RawFlask)>>)}
    \cup {NetOutcome(TRUE, TRUE, 200, TRUE, <<Message("assistant", r)>>) : r \in RawResponses}

\* StatusCode::is_success
IsSuccess(status) == status >= 200 /\ status <= 299

\* A variant that sends a window of the history, not the whole of it.
FullMessages_Window(messages) ==
    <<SystemMessage>> \o SubSeq(messages, IF Len(messages) > 2 THEN Len(messages) - 1 ELSE 1,
                                Len(messages))

\* full_messages: the system message, then the history
FullMessages(messages) == <<SystemMessage>> \o messages

ApiErr(sent, err) == [ok |-> FALSE, text |-> <<>>, err |-> err, sent |-> sent]
ApiOk(sent, text) == [ok |-> TRUE, text |-> text, err |-> "", sent |-> sent]

\* A variant that returns the content of the last choice, not of the first.
SendAndParse_LastChoice(messages, net) ==
    LET sent == FullMessages(messages)
    IN  IF ~net.transport_ok THEN ApiErr(sent, "HTTP error to Hugging Face router")
        ELSE IF ~net.read_ok THEN ApiErr(sent, "Failed to read Hugging Face response")
        ELSE IF ~IsSuccess(net.status) THEN ApiErr(sent, "HuggingFace error")
        ELSE IF ~net.json_ok
             THEN ApiErr(sent, "Failed to parse Hugging Face JSON response")
        ELSE IF net.choices = <<>>
             THEN ApiErr(sent, "No choices in Hugging Face response")
        ELSE ApiOk(sent, net.choices[Len(net.choices)].content)

\* The call once the credential is read and makes a header: the request goes
\* out, and the reply is read, checked and parsed.
SendAndParse(messages, net) ==
    LET sent == FullMessages(messages)
    IN  IF ~net.transport_ok THEN ApiErr(sent, "HTTP error to Hugging Face router")
        ELSE IF ~net.read_ok THEN ApiErr(sent, "Failed to read Hugging Face response")
        ELSE IF ~IsSuccess(net.status) THEN ApiErr(sent, "HuggingFace error")
        ELSE IF ~net.json_ok
             THEN ApiErr(sent, "Failed to parse Hugging Face JSON response")
        ELSE IF net.choices = <<>>
             THEN ApiErr(sent, "No choices in Hugging Face response")
        ELSE ApiOk(sent, net.choices[1].content)

\* A variant that reads the credential only after the request was sent.
generate_code_with_history_LateCheck(token, messages, net) ==
    LET r == SendAndParse(messages, net)
    IN  IF ~token.set THEN ApiErr(r.sent, "HF_TOKEN missing in .env")
        ELSE IF ~HeaderValueOk(token.value) THEN ApiErr(r.sent, "Invalid Bearer token format")
        ELSE r

\* generate_code_with_history: sent is the message sequence transmitted, empty
\* when the call fails before the request.
generate_code_with_history(token, messages, net) ==
    IF ~token.set THEN ApiErr(<<>>, "HF_TOKEN missing in .env")
    ELSE IF ~HeaderValueOk(token.value) THEN ApiErr(<<>>, "Invalid Bearer token format")
    ELSE SendAndParse(messages, net)

NoApiCall == [ok |-> TRUE, text |-> <<>>, err |-> "", sent |-> <<>>]

---------------------------------------------------------------------------
(* python_exec.rs: the execution engine *)

Captured == "Captured"
Interactive == "Interactive"
ExecutionModes == {Captured, Interactive}

\* A variant that tries the candidates in the other order.
python_cmds_Swapped == <<"python", "python3">>

\* python_cmds, in the order tried
python_cmds == <<"python3", "python">>

ExitSome(n) == [some |-> TRUE, v |-> n]
ExitNone == [some |-> FALSE, v |-> 0]

\* What one candidate interpreter does with the script: whether it could be
\* spawned, whether waiting for it failed, and what the process left.
Proc(spawned, wait_ok, stdout, stderr, exit_code) ==
    [spawned |-> spawned, wait_ok |-> wait_ok, stdout |-> stdout,
     stderr |-> stderr, exit_code |-> exit_code]
ProcNotFound == Proc(FALSE, FALSE, <<>>, <<>>, ExitNone)
ProcWaitFails == Proc(TRUE, FALSE, <<>>, <<>>, ExitNone)
ProcClean == Proc(TRUE, TRUE, <<"h", "i", "\n">>, <<>>, ExitSome(0))
ProcRaises == Proc(TRUE, TRUE, <<>>, <<"E", "r", "r", "o", "r">>, ExitSome(1))
ProcWarns == Proc(TRUE, TRUE, <<>>, <<"w", "a", "r", "n">>, ExitSome(0))
ProcOutcomes == {ProcNotFound, ProcWaitFails, ProcClean, ProcRaises, ProcWarns}
\* Captured mode has no wait of its own to fail; interactive mode captures no
\* stderr, so a warning there is a clean run.
ProcOutcomesFor(mode) ==
    IF mode = Interactive THEN ProcOutcomes \ {ProcWarns} ELSE ProcOutcomes \ {ProcWaitFails}

InteractiveMarker == <<"[Interactive mode - output displayed directly]">>

CodeExecutionResult(script_path, stdout, stderr, exit_code) ==
    [script_path |-> script_path, stdout |-> stdout, stderr |-> stderr,
     exit_code |-> exit_code]
NoResult == CodeExecutionResult(<<>>, <<>>, <<>>, ExitNone)

ExecOk(attempts, result) ==
    [ok |-> TRUE, err |-> "", last_cmd |-> "", attempts |-> attempts, result |-> result]
ExecErr(attempts, err, cmd) ==
    [ok |-> FALSE, err |-> err, last_cmd |-> cmd, attempts |-> attempts, result |-> NoResult]

\* One turn of the loop over python_cmds, from candidate i on: attempts are the
\* candidates tried so far, last_err the error kept so far and the candidate
\* it names. Command::spawn() and Command::output() return Err when the
\* candidate cannot be launched; only the interactive arm waits by itself.
RECURSIVE ExecuteFrom(_, _, _, _, _, _)
ExecuteFrom(i, script_path, mode, outs, attempts, last_err) ==
    IF i > Len(python_cmds)
    THEN IF last_err.set
         THEN ExecErr(attempts, last_err.err, last_err.cmd)
         ELSE ExecErr(attempts, "Could not execute the script with python/python3", "")
    ELSE LET cmd   == python_cmds[i]
             out   == outs[i]
             tried == Append(attempts, cmd)
         IN  IF mode = Interactive
             THEN IF out.spawned
                  THEN IF out.wait_ok
                       THEN ExecOk(tried, CodeExecutionResult(script_path, InteractiveMarker,
                                                              <<>>, out.exit_code))
                       ELSE ExecErr(tried, "Failed to wait for process", cmd)
                  ELSE ExecuteFrom(i + 1, script_path, mode, outs, tried,
                                   [set |-> TRUE, cmd |-> cmd,
                                    err |-> "Failed to spawn interactive process"])
             ELSE IF out.spawned
                  THEN ExecOk(tried, CodeExecutionResult(script_path, out.stdout,
                                                         out.stderr, out.exit_code))
                  ELSE ExecuteFrom(i + 1, script_path, mode, outs, tried,
                                   [set |-> TRUE, cmd |-> cmd, err |-> "Failed with command"])

\* A variant that turns a non-zero exit code into a failure of the call.
execute_script_FailsOnExit(script_path, mode, outs) ==
    LET r == ExecuteFrom(1, script_path, mode, outs, <<>>,
                         [set |-> FALSE, cmd |-> "", err |-> ""])
    IN  IF r.ok /\ r.result.exit_code # ExitSome(0)
        THEN ExecErr(r.attempts, "Script failed", r.attempts[Len(r.attempts)])
        ELSE r

\* CodeExecutor::execute_script
execute_script(script_path, mode, outs) ==
    ExecuteFrom(1, script_path, mode, outs, <<>>, [set |-> FALSE, cmd |-> "", err |-> ""])

\* The seconds of the clock as the file name shows them: format("%Y%m%d_%H%M%S")
\* keeps nothing finer than the second.
SecondDigits == <<"0", "1", "2", "3", "4", "5", "6", "7", "8", "9">>
FormatTs(t) == SecondDigits[(t \div TicksPerSecond) + 1]

\* base_dir.join(format!("script_{ts}.py")): a path is a sequence of pieces
ScriptPath(base_dir, t) == <<base_dir, "/", "script_", FormatTs(t), ".py">>

\* A variant that leaves the written file alone in the directory.
FsWrite_Truncates(fs, path, content) == [p \in {path} |-> content]

\* A variant that creates the file and writes nothing to it.
FsWrite_Creates(fs, path, content) ==
    [p \in (DOMAIN fs) \cup {path} |-> IF p = path THEN <<>> ELSE fs[p]]

\* fs::write on a file system: the path holds the content afterwards
FsWrite(fs, path, content) ==
    [p \in (DOMAIN fs) \cup {path} |-> IF p = path THEN content ELSE fs[p]]

\* The keywords needs_interactive_mode looks for
interactive_keywords ==
    {<<"p", "y", "g", "a", "m", "e">>,
     <<"i", "n", "p", "u", "t", "(">>,
     <<"t", "u", "r", "t", "l", "e">>,
     <<"t", "k", "i", "n", "t", "e", "r">>,
     <<"c", "u", "r", "s", "e", "s">>,
     <<"g", "e", "t", "p", "a", "s", "s">>,
     <<"c", "v", "2", ".", "i", "m", "s", "h", "o", "w">>,
     <<"p", "l", "t", ".", "s", "h", "o", "w">>,
     <<"m", "a", "t", "p", "l", "o", "t", "l", "i", "b">>}

\* A variant that takes the word input for the call input(.
needs_interactive_mode_BareInput(text) ==
    \E keyword \in interactive_keywords \cup {<<"i", "n", "p", "u", "t">>} :
        Contains(text, keyword)

\* CodeExecutor::needs_interactive_mode: the code contains one of the keywords
needs_interactive_mode(text) == \E keyword \in interactive_keywords : Contains(text, keyword)

\* A variant in which the heuristic chooses the mode, whatever the caller asked.
write_and_run_with_mode_Heuristic(base_dir, text, mode, t, fs, write_ok, outs) ==
    LET script_path == ScriptPath(base_dir, t)
        chosen      == IF needs_interactive_mode(text) THEN Interactive ELSE Captured
    IN  IF ~write_ok
        THEN [fs |-> fs, wrote |-> FALSE, path |-> script_path, mode |-> mode,
              call |-> ExecErr(<<>>, "Could not write the script", "")]
        ELSE [fs |-> FsWrite(fs, script_path, text), wrote |-> TRUE,
              path |-> script_path, mode |-> mode,
              call |-> execute_script(script_path, chosen, outs)]

\* CodeExecutor::write_and_run_with_mode at instant t on file system fs:
\* write_ok is whether fs::write succeeds. The outcome of the call and the
\* file system it leaves.
write_and_run_with_mode(base_dir, text, mode, t, fs, write_ok, outs) ==
    LET script_path == ScriptPath(base_dir, t)
    IN  IF ~write_ok
        THEN [fs |-> fs, wrote |-> FALSE, path |-> script_path, mode |-> mode,
              call |-> ExecErr(<<>>, "Could not write the script", "")]
        ELSE [fs |-> FsWrite(fs, script_path, text), wrote |-> TRUE,
              path |-> script_path, mode |-> mode,
              call |-> execute_script(script_path, mode, outs)]

\* CodeExecutor::write_and_run
write_and_run(base_dir, text, t, fs, write_ok, outs) ==
    write_and_run_with_mode(base_dir, text, Captured, t, fs, write_ok, outs)

\* A variant that does not look whether the path exists.
run_existing_script_NoCheck(script_path, mode, fs, outs) ==
    [fs |-> fs, wrote |-> FALSE, path |-> script_path, mode |-> mode,
     call |-> execute_script(script_path, mode, outs)]

\* CodeExecutor::run_existing_script
run_existing_script(script_path, mode, fs, outs) ==
    IF script_path \notin DOMAIN fs
    THEN [fs |-> fs, wrote |-> FALSE, path |-> script_path, mode |-> mode,
          call |-> ExecErr(<<>>, "Script not found", "")]
    ELSE [fs |-> fs, wrote |-> FALSE, path |-> script_path, mode |-> mode,
          call |-> execute_script(script_path, mode, outs)]

\* What exec_call keeps of a call to the engine: the entry point, its
\* arguments, what the candidates did (outs) and what the call returned (r).
ExecCall(op, text, outs, r) ==
    [op |-> op, text |-> text, outs |-> outs, wrote |-> r.wrote, path |-> r.path,
     mode |-> r.mode, call |-> r.call]
NoExecCall ==
    [op |-> "none", text |-> <<>>, outs |-> <<>>, wrote |-> FALSE, path |-> <<>>,
     mode |-> Captured, call |-> ExecOk(<<>>, NoResult)]

\* What "python -m pip install" does under one candidate: not launched, exit
\* status success, exit status failure.
PipOutcomes == {"not_found", "success", "failed"}

\* One turn of the loop of install_packages, from candidate i on.
RECURSIVE InstallFrom(_, _, _, _, _)
InstallFrom(i, packages, outs, attempts, last_err) ==
    IF i > Len(python_cmds)
    THEN [ok |-> FALSE, packages |-> packages, attempts |-> attempts,
          err |-> IF last_err.set THEN last_err.err
                  ELSE "Could not install packages with python/python3",
          last_cmd |-> last_err.cmd]
    ELSE LET cmd   == python_cmds[i]
             tried == Append(attempts, cmd)
         IN  IF outs[i] = "success"
             THEN [ok |-> TRUE, packages |-> packages, attempts |-> tried,
                   err |-> "", last_cmd |-> ""]
             ELSE InstallFrom(i + 1, packages, outs, tried,
                              [set |-> TRUE, cmd |-> cmd,
                               err |-> IF outs[i] = "failed" THEN "pip install failed"
                                       ELSE "Failed to run pip"])

\* A variant that, like execute_script, returns at the first candidate that
\* could be launched, whatever the exit status of its package manager.
install_packages_StopsOnExit(packages, outs) ==
    IF packages = {}
    THEN [ok |-> TRUE, packages |-> packages, attempts |-> <<>>, err |-> "",
          last_cmd |-> ""]
    ELSE IF outs[1] = "failed"
    THEN [ok |-> FALSE, packages |-> packages, attempts |-> <<python_cmds[1]>>,
          err |-> "pip install failed", last_cmd |-> python_cmds[1]]
    ELSE InstallFrom(1, packages, outs, <<>>, [set |-> FALSE, cmd |-> "", err |-> ""])

\* CodeExecutor::install_packages
install_packages(packages, outs) ==
    IF packages = {}
    THEN [ok |-> TRUE, packages |-> packages, attempts |-> <<>>, err |-> "",
          last_cmd |-> ""]
    ELSE InstallFrom(1, packages, outs, <<>>, [set |-> FALSE, cmd |-> "", err |-> ""])

NoInstallCall ==
    [ok |-> TRUE, packages |-> {}, attempts |-> <<>>, err |-> "", last_cmd |-> ""]

---------------------------------------------------------------------------
(* interface.rs: start_repl *)

\* SessionMetrics::new
SessionMetricsNew ==
    [total_requests |-> 0, successful_executions |-> 0, failed_executions |-> 0,
     api_errors |-> 0]

CmdQuit == <<"/", "q", "u", "i", "t">>
CmdExit == <<"/", "e", "x", "i", "t">>
CmdHelp == <<"/", "h", "e", "l", "p">>
CmdStats == <<"/", "s", "t", "a", "t", "s">>
CmdClear == <<"/", "c", "l", "e", "a", "r">>
CmdHistory == <<"/", "h", "i", "s", "t", "o", "r", "y">>
CmdSave == <<"/", "s", "a", "v", "e">>
CmdRefine == <<"/", "r", "e", "f", "i", "n", "e">>

\* The lines a user types at the prompt, as read_line returns them.
PromptLines ==
    {CmdQuit \o <<"\n">>, CmdExit \o <<"\n">>, <<" ">> \o CmdHelp \o <<"\n">>,
     CmdStats \o <<"\n">>, CmdClear \o <<"\n">>, CmdHistory \o <<"\n">>,
     CmdSave \o <<"\n">>, CmdSave \o <<" ", "s", "\n">>, CmdRefine \o <<"\n">>,
     <<"h", "i", "\n">>}
\* The lines typed when /refine asks what to change.
RefineLines == {<<" ", "f", "a", "s", "t", "\n">>, <<" ", "\n">>}
\* The lines typed when /save asks for a file name.
FilenameLines == {<<"s", "\n">>, <<"\n">>}
\* The lines typed at a yes/no question.
AnswerLines == {<<"o", "\n">>, <<"O", "u", "i", "\n">>, <<"y", "\n">>, <<"n", "\n">>, <<"\n">>}

\* ask_user: the line read, trimmed
ask_user(line) == Trim(line)

\* confirm: the answer, lower-cased, starts with 'o'
confirm(line) ==
    LET ans == ask_user(line)
    IN  ans # <<>> /\ ToLower(ans[1]) = "o"

\* The branch of the loop a prompt takes, in the order the tests are made.
Dispatch(prompt) ==
    IF prompt = CmdQuit \/ prompt = CmdExit THEN "quit"
    ELSE IF prompt = CmdHelp THEN "help"
    ELSE IF prompt = CmdStats THEN "stats"
    ELSE IF prompt = CmdClear THEN "clear"
    ELSE IF prompt = CmdHistory THEN "history"
    ELSE IF StartsWith(prompt, CmdSave) THEN "save"
    ELSE IF prompt = CmdRefine THEN "refine"
    ELSE "plain"

\* The prompt lines that take each branch.
LinesOf ==
    [branch \in {"quit", "help", "stats", "clear", "history", "save", "refine", "plain"} |->
        {line \in PromptLines : Dispatch(ask_user(line)) = branch}]

RefinePrefix == <<"Please refine the previous code: ">>

\* The directory CodeExecutor::new is given
BaseDir == "generated"

\* A variant that pops the failed turn and the turn before it.
Rollback_PopsTwo(history) ==
    IF Len(history) < 2 THEN <<>> ELSE SubSeq(history, 1, Len(history) - 2)

\* A variant that pops nothing: the history is left with the turn that failed.
Rollback_NoPop(history) == history

\* Vec::pop on the history
Rollback(history) ==
    IF history = <<>> THEN <<>> ELSE SubSeq(history, 1, Len(history) - 1)

\* result.stderr.is_empty() || !result.stderr.contains("Error")
ExecutionSuccess(result) ==
    result.stderr = <<>> \/ ~Contains(result.stderr, <<"E", "r", "r", "o", "r">>)

\* No function has been called on its own.
NoPureCall == [arg |-> <<>>, fn |-> "none", text |-> <<>>, names |-> {}, flag |-> FALSE]

Init ==
    /\ pc = "prompt"
    /\ conversation_history = <<>>
    /\ last_generated_code = <<>>
    /\ metrics = SessionMetricsNew
    /\ code = <<>>
    /\ deps = {}
    /\ hf_token \in EnvTokens
    /\ now = 0
    /\ files = <<>>
    /\ api_call = NoApiCall
    /\ exec_call = NoExecCall
    /\ install_call = NoInstallCall
    /\ written = <<>>
    /\ hist_before = <<>>
    /\ pure_call = NoPureCall

\* A new turn of the loop starts: no call has been made in it yet.
NewIteration ==
    /\ api_call' = NoApiCall
    /\ exec_call' = NoExecCall
    /\ install_call' = NoInstallCall

\* /quit, /exit: the loop ends
Quit ==
    /\ pc = "prompt"
    /\ LinesOf["quit"] # {}
    /\ pc' = "exited"
    /\ NewIteration
    /\ UNCHANGED <<conversation_history, last_generated_code, metrics, code, deps,
                   hist_before, hf_token, pure_call, now, files, written>>

\* /help
Help ==
    /\ pc = "prompt"
    /\ LinesOf["help"] # {}
    /\ NewIteration
    /\ UNCHANGED <<pc, conversation_history, last_generated_code, metrics, code, deps,
                   hist_before, hf_token, pure_call, now, files, written>>

\* /stats
Stats ==
    /\ pc = "prompt"
    /\ LinesOf["stats"] # {}
    /\ NewIteration
    /\ UNCHANGED <<pc, conversation_history, last_generated_code, metrics, code, deps,
                   hist_before, hf_token, pure_call, now, files, written>>

\* A variant of /clear that resets the counters as well.
Clear_ResetsMetrics ==
    /\ pc = "prompt"
    /\ LinesOf["clear"] # {}
    /\ conversation_history' = <<>>
    /\ last_generated_code' = <<>>
    /\ metrics' = SessionMetricsNew
    /\ NewIteration
    /\ UNCHANGED <<pc, code, deps, hist_before, hf_token, pure_call, now, files, written>>

\* A variant of /clear that empties the history and keeps the last code.
Clear_KeepsCode ==
    /\ pc = "prompt"
    /\ LinesOf["clear"] # {}
    /\ conversation_history' = <<>>
    /\ NewIteration
    /\ UNCHANGED <<pc, last_generated_code, metrics, code, deps, hist_before, hf_token, pure_call,
                   now, files, written>>

\* /clear
Clear ==
    /\ pc = "prompt"
    /\ LinesOf["clear"] # {}
    /\ conversation_history' = <<>>
    /\ last_generated_code' = <<>>
    /\ NewIteration
    /\ UNCHANGED <<pc, metrics, code, deps, hist_before, hf_token, pure_call, now, files, written>>

\* /history
History ==
    /\ pc = "prompt"
    /\ LinesOf["history"] # {}
    /\ NewIteration
    /\ UNCHANGED <<pc, conversation_history, last_generated_code, metrics, code, deps,
                   hist_before, hf_token, pure_call, now, files, written>>

\* /save: nothing without a last code or a file name; fs::write may fail
Save ==
    /\ pc = "prompt"
    /\ \E line \in LinesOf["save"], fline \in FilenameLines, write_ok \in BOOLEAN :
          LET prompt   == ask_user(line)
              parts    == SplitWhitespace(prompt)
              filename == IF Len(parts) > 1 THEN parts[2] ELSE ask_user(fline)
          IN  files' = IF last_generated_code = <<>> \/ filename = <<>> \/ ~write_ok
                          THEN files
                          ELSE FsWrite(files, filename, last_generated_code)
    /\ NewIteration
    /\ UNCHANGED <<pc, conversation_history, last_generated_code, metrics, code, deps,
                   hist_before, hf_token, pure_call, now, written>>

\* The user turn is pushed, the request is logged and counted, and the call
\* to the generation client starts.
PushAndRequest(content) ==
    /\ hist_before' = conversation_history
    /\ conversation_history' = Append(conversation_history, Message("user", content))
    /\ metrics' = [metrics EXCEPT !.total_requests = @ + 1]
    /\ pc' = "generate"
    /\ UNCHANGED <<last_generated_code, code, deps, hf_token, pure_call, now, files, written>>

\* A variant of /refine that attaches the last code to the request.
Refine_AttachesCode ==
    /\ pc = "prompt"
    /\ NewIteration
    /\ LinesOf["refine"] # {}
    /\ \E rline \in RefineLines :
          LET refinement == Trim(rline)
          IN  IF last_generated_code = <<>> \/ refinement = <<>>
              THEN UNCHANGED <<pc, conversation_history, last_generated_code, metrics,
                               code, deps, hist_before, hf_token, pure_call, now, files, written>>
              ELSE /\ metrics.total_requests < MaxRequests
                   /\ PushAndRequest(RefinePrefix \o refinement \o last_generated_code)

\* /refine: nothing without a last code or a change; else a user turn
Refine ==
    /\ pc = "prompt"
    /\ NewIteration
    /\ LinesOf["refine"] # {}
    /\ \E rline \in RefineLines :
          LET refinement == Trim(rline)
          IN  IF last_generated_code = <<>> \/ refinement = <<>>
              THEN UNCHANGED <<pc, conversation_history, last_generated_code, metrics,
                               code, deps, hist_before, hf_token, pure_call, now, files, written>>
              ELSE /\ metrics.total_requests < MaxRequests
                   /\ PushAndRequest(RefinePrefix \o refinement)

\* any other prompt: a user turn
Plain ==
    /\ pc = "prompt"
    /\ metrics.total_requests < MaxRequests
    /\ NewIteration
    /\ \E line \in LinesOf["plain"] : PushAndRequest(ask_user(line))

\* A variant of the Ok arm that caches the raw reply, not the extracted code.
GenerateOk_CachesRaw(r) ==
    /\ code' = extract_python_code(r.text)
    /\ last_generated_code' = r.text
    /\ conversation_history' =
          Append(conversation_history, Message("assistant", extract_python_code(r.text)))
    /\ pc' = "confirm"
    /\ UNCHANGED metrics

\* A variant of the Ok arm that stores no assistant turn.
GenerateOk_NoAssistantTurn(r) ==
    LET c == extract_python_code(r.text)
    IN  /\ code' = c
        /\ last_generated_code' = c
        /\ pc' = "confirm"
        /\ UNCHANGED <<metrics, conversation_history>>

\* A variant of the Ok arm that stores the raw response as the assistant turn.
GenerateOk_PushesRaw(r) ==
    LET c == extract_python_code(r.text)
    IN  /\ code' = c
        /\ last_generated_code' = c
        /\ conversation_history' = Append(conversation_history, Message("assistant", r.text))
        /\ pc' = "confirm"
        /\ UNCHANGED metrics

\* The Ok arm of the generation call: the code is extracted and cached, the
\* assistant turn pushed, and the user asked whether to run.
GenerateOk(r) ==
    LET c == extract_python_code(r.text)
    IN  /\ code' = c
        /\ last_generated_code' = c
        /\ conversation_history' = Append(conversation_history, Message("assistant", c))
        /\ pc' = "confirm"
        /\ UNCHANGED metrics

\* A variant of the Err arm that ends the session.
GenerateErr_Exits(r) ==
    /\ metrics' = [metrics EXCEPT !.api_errors = @ + 1]
    /\ conversation_history' = Rollback(conversation_history)
    /\ pc' = "exited"
    /\ UNCHANGED <<code, last_generated_code>>

\* A variant of the Err arm that also counts a failed execution.
GenerateErr_CountsTwice(r) ==
    /\ metrics' = [metrics EXCEPT !.api_errors = @ + 1, !.failed_executions = @ + 1]
    /\ conversation_history' = Rollback(conversation_history)
    /\ pc' = "prompt"
    /\ UNCHANGED <<code, last_generated_code>>

\* The Err arm: the error is counted and printed, and the user turn popped.
GenerateErr(r) ==
    /\ metrics' = [metrics EXCEPT !.api_errors = @ + 1]
    /\ conversation_history' = Rollback(conversation_history)
    /\ pc' = "prompt"
    /\ UNCHANGED <<code, last_generated_code>>

\* The generation call returns and its result is matched.
Generate ==
    /\ pc = "generate"
    /\ \E net \in NetOutcomes :
          LET r == generate_code_with_history(hf_token, conversation_history, net)
          IN  /\ api_call' = r
              /\ IF r.ok THEN GenerateOk(r) ELSE GenerateErr(r)
    /\ hist_before' = <<>>
    /\ UNCHANGED <<deps, hf_token, pure_call, now, files, exec_call, install_call, written>>

\* A variant that keeps the dependencies of the first code of the conversation.
ConfirmExec_StaleDeps ==
    /\ pc = "confirm"
    /\ \E line \in AnswerLines :
          IF confirm(line)
          THEN /\ deps' = detect_dependencies(conversation_history[2].content)
               /\ pc' = IF deps' # {} THEN "confirm_install" ELSE "run"
               /\ UNCHANGED code
          ELSE /\ pc' = "prompt"
               /\ code' = <<>>
               /\ UNCHANGED deps
    /\ api_call' = NoApiCall
    /\ UNCHANGED <<conversation_history, last_generated_code, metrics,
                   hist_before, hf_token, pure_call, now, files, exec_call, install_call, written>>

\* "Execute this script?": no ends the cycle; yes computes the dependencies
ConfirmExec ==
    /\ pc = "confirm"
    /\ \E line \in AnswerLines :
          IF confirm(line)
          THEN /\ deps' = detect_dependencies(code)
               /\ pc' = IF deps' # {} THEN "confirm_install" ELSE "run"
               /\ UNCHANGED code
          ELSE /\ pc' = "prompt"
               /\ code' = <<>>
               /\ UNCHANGED deps
    /\ api_call' = NoApiCall
    /\ UNCHANGED <<conversation_history, last_generated_code, metrics,
                   hist_before, hf_token, pure_call, now, files, exec_call, install_call, written>>

\* "Install these dependencies?"
ConfirmInstall ==
    /\ pc = "confirm_install"
    /\ \E line \in AnswerLines : pc' = IF confirm(line) THEN "install" ELSE "run"
    /\ api_call' = NoApiCall
    /\ UNCHANGED <<conversation_history, last_generated_code, metrics, code, deps,
                   hist_before, hf_token, pure_call, now, files, exec_call, install_call, written>>

\* A variant in which a failed install ends the cycle.
Install_StopsOnFailure ==
    /\ pc = "install"
    /\ \E outs \in [1..Len(python_cmds) -> PipOutcomes] :
          /\ install_call' = install_packages(deps, outs)
          /\ pc' = IF install_call'.ok THEN "run" ELSE "prompt"
    /\ UNCHANGED <<conversation_history, last_generated_code, metrics, code, deps,
                   api_call, hist_before, hf_token, pure_call, now, files, exec_call, written>>

\* install_packages(&deps): a failure is printed and the cycle goes on
Install ==
    /\ pc = "install"
    /\ \E outs \in [1..Len(python_cmds) -> PipOutcomes] :
          install_call' = install_packages(deps, outs)
    /\ pc' = "run"
    /\ UNCHANGED <<conversation_history, last_generated_code, metrics, code, deps,
                   api_call, hist_before, hf_token, pure_call, now, files, exec_call, written>>

\* The instants Utc::now() may return: the clock has moved on by any amount
\* since it was last read.
ClockReadings == now..MaxClock

\* What the candidates do in one run of the REPL. Outcomes that differ only in
\* a candidate after one that was spawned are the same run, since
\* execute_script returns at the first spawn: one of each is drawn.
RunOutcomes ==
    {outs \in [1..Len(python_cmds) -> ProcOutcomesFor(Captured)] :
        \A i \in 1..Len(python_cmds) :
           (\E j \in 1..(i - 1) : outs[j].spawned) => outs[i] = ProcNotFound}

\* A variant that stores the assistant turn once the script has run.
Run_AppendsTurn ==
    /\ pc = "run"
    /\ \E t \in ClockReadings, write_ok \in BOOLEAN, outs \in RunOutcomes :
          LET r == write_and_run(BaseDir, code, t, files, write_ok, outs)
          IN  /\ now' = t
              /\ files' = r.fs
              /\ written' = IF r.wrote THEN Append(written, r.path) ELSE written
              /\ exec_call' = ExecCall("write_and_run", code, outs, r)
              /\ metrics' =
                    IF r.call.ok /\ ExecutionSuccess(r.call.result)
                    THEN [metrics EXCEPT !.successful_executions = @ + 1]
                    ELSE [metrics EXCEPT !.failed_executions = @ + 1]
    /\ conversation_history' = Append(conversation_history, Message("assistant", code))
    /\ pc' = "prompt"
    /\ code' = <<>>
    /\ deps' = {}
    /\ install_call' = NoInstallCall
    /\ UNCHANGED <<last_generated_code, api_call, hist_before, hf_token, pure_call>>

\* write_and_run(&code) and the counting of its result
Run ==
    /\ pc = "run"
    /\ \E t \in ClockReadings, write_ok \in BOOLEAN, outs \in RunOutcomes :
          LET r == write_and_run(BaseDir, code, t, files, write_ok, outs)
          IN  /\ now' = t
              /\ files' = r.fs
              /\ written' = IF r.wrote THEN Append(written, r.path) ELSE written
              /\ exec_call' = ExecCall("write_and_run", code, outs, r)
              /\ metrics' =
                    IF r.call.ok /\ ExecutionSuccess(r.call.result)
                    THEN [metrics EXCEPT !.successful_executions = @ + 1]
                    ELSE [metrics EXCEPT !.failed_executions = @ + 1]
    /\ pc' = "prompt"
    /\ code' = <<>>
    /\ deps' = {}
    /\ install_call' = NoInstallCall
    /\ UNCHANGED <<conversation_history, last_generated_code, api_call, hist_before,
                   hf_token, pure_call>>

Next ==
    \/ Quit
    \/ Help
    \/ Stats
    \/ Clear
    \/ History
    \/ Save
    \/ Refine
    \/ Plain
    \/ Generate
    \/ ConfirmExec
    \/ ConfirmInstall
    \/ Install
    \/ Run

Spec == Init /\ [][Next]_vars

---------------------------------------------------------------------------
(* The execution engine called directly, as its tests and any other caller *)
(* call it: either mode, any text, any path. exec_call and install_call     *)
(* hold the last call made.                                                *)

\* The texts handed to write_and_run_with_mode: one of them reads input.
EngineTexts == {<<"x">>, <<>>, <<"i", "n", "p", "u", "t", "(">>}

\* The paths handed to run_existing_script: the scripts written so far and
\* one that does not exist.
MissingPath == <<"missing.py">>
EnginePaths == (DOMAIN files) \cup {MissingPath}

\* The package lists handed to install_packages.
EnginePackages == {{}, {<<"x">>}}

EngineWriteAndRun ==
    /\ pc = "prompt"
    /\ Len(written) < MaxRuns
    /\ \E text \in EngineTexts, mode \in ExecutionModes, t \in ClockReadings,
          write_ok \in BOOLEAN :
          \E outs \in [1..Len(python_cmds) -> ProcOutcomesFor(mode)] :
             LET r == write_and_run_with_mode(BaseDir, text, mode, t, files, write_ok, outs)
             IN  /\ now' = t
                 /\ files' = r.fs
                 /\ written' = IF r.wrote THEN Append(written, r.path) ELSE written
                 /\ exec_call' = ExecCall("write_and_run", text, outs, r)
    /\ install_call' = NoInstallCall
    /\ UNCHANGED <<replVars, hf_token, pure_call>>

EngineRunExisting ==
    /\ pc = "prompt"
    /\ \E script_path \in EnginePaths, mode \in ExecutionModes :
          \E outs \in [1..Len(python_cmds) -> ProcOutcomesFor(mode)] :
             LET r == run_existing_script(script_path, mode, files, outs)
             IN  /\ files' = r.fs
                 /\ exec_call' = ExecCall("run_existing", <<>>, outs, r)
    /\ install_call' = NoInstallCall
    /\ UNCHANGED <<replVars, hf_token, pure_call, now, written>>

EngineInstall ==
    /\ pc = "prompt"
    /\ \E packages \in EnginePackages, outs \in [1..Len(python_cmds) -> PipOutcomes] :
          install_call' = install_packages(packages, outs)
    /\ exec_call' = NoExecCall
    /\ UNCHANGED <<replVars, hf_token, pure_call, now, files, written>>

NextEngine ==
    \/ EngineWriteAndRun
    \/ EngineRunExisting
    \/ EngineInstall

\* The engine reads no credential.
InitEngine == Init /\ hf_token = TokenUnset

SpecEngine == InitEngine /\ [][NextEngine]_vars

---------------------------------------------------------------------------
(* The functions of utils.rs and the interactivity heuristic called on their *)
(* own, as their unit tests call them: pure_call.arg is the text given,      *)
(* pure_call.fn the function applied to it, and the result is in the field   *)
(* of its type: text, names or flag.                                         *)

\* Every sequence over an alphabet, up to a length.
TextsUpTo(alphabet, n) == UNION {[1..k -> alphabet] : k \in 0..n}

\* The contents of a fenced block: blanks, newlines, a letter and single
\* backticks in every order, without a triple backtick.
InnerAlphabet == {" ", "\n", "a", Backtick}
InnerTexts == {t \in TextsUpTo(InnerAlphabet, MaxInner) : ~Contains(t, Fence)}

\* The language tags of an opening fence: none, python, another language.
OtherTag == <<"j", "s">>
FenceTags == {<<>>, PythonTag, OtherTag}

\* The commentary before and after a fenced block.
Preambles == {<<>>, <<"c", "\n">>}
Postambles == {<<>>, <<"\n", "c">>}

\* A fenced block as a reply holds it: opening fence, tag, newline, content,
\* newline, closing fence.
FencedBlock(tag, inner) == Fence \o tag \o <<"\n">> \o inner \o <<"\n">> \o Fence

\* The replies handed to extract_python_code: a block with or without
\* commentary around it, and the same contents without any fence.
FencedResponses ==
    {pre \o FencedBlock(tag, inner) \o post :
        pre \in Preambles, tag \in FenceTags, inner \in InnerTexts, post \in Postambles}
ExtractInputs == FencedResponses \cup InnerTexts

\* The lines of the codes handed to the import scan.
ImportLines ==
    {<<"i", "m", "p", "o", "r", "t", " ", "x">>,
     <<"i", "m", "p", "o", "r", "t", " ", "o", "s">>,
     <<"i", "m", "p", "o", "r", "t", " ", "x", ".", "s">>,
     <<"f", "r", "o", "m", " ", "y", " ", "i", "m", "p", "o", "r", "t", " ", "p">>,
     <<"f", "r", "o", "m", " ", "y", ".", "s", " ", "i", "m", "p", "o", "r", "t", " ", "p">>,
     <<"\t", "i", "m", "p", "o", "r", "t", " ", "z">>,
     <<"#", " ", "i", "m", "p", "o", "r", "t", " ", "w">>,
     <<" ", "#", "f", "r", "o", "m", " ", "w", " ", "i", "m", "p", "o", "r", "t", " ", "p">>,
     <<"p", " ", "=", " ", "1">>,
     <<"i", "m", "p", "o", "r", "t", " ", "x", ",", " ", "z">>}

\* The lines joined by newlines.
RECURSIVE JoinLines(_)
JoinLines(ls) ==
    IF ls = <<>> THEN <<>>
    ELSE IF Len(ls) = 1 THEN ls[1]
    ELSE ls[1] \o <<"\n">> \o JoinLines(Tail(ls))

\* The codes handed to extract_imports and detect_dependencies.
ImportInputs == {JoinLines(ls) : ls \in TextsUpTo(ImportLines, MaxLines)}

\* Words that are nearly an interactivity keyword.
NearKeywords ==
    {<<"i", "n", "p", "u", "t">>,
     <<"p", "y", "g", "a", "m">>,
     <<"T", "u", "r", "t", "l", "e">>,
     <<"p", "l", "t", ".", "s", "h", "o">>,
     <<"c", "v", "2", ".", "i", "m", "s", "h", "w">>}

\* The codes handed to needs_interactive_mode: a keyword or a near miss, alone
\* or inside other text.
ModeInputs ==
    {pre \o word \o post :
        pre \in {<<>>, <<"a", " ">>}, word \in interactive_keywords \cup NearKeywords,
        post \in {<<>>, <<")", "\n">>}}

PureInputs == ExtractInputs \cup ImportInputs \cup ModeInputs

\* Every variable but pure_call.
sessionVars == <<pc, conversation_history, last_generated_code, metrics, code, deps,
                 hf_token, now, files, api_call, exec_call, install_call, written,
                 hist_before>>

ApplyExtractPythonCode ==
    /\ pure_call' = [NoPureCall EXCEPT !.arg = pure_call.arg,
                                       !.fn = "extract_python_code",
                                       !.text = extract_python_code(pure_call.arg)]
    /\ UNCHANGED sessionVars

ApplyExtractImports ==
    /\ pure_call' = [NoPureCall EXCEPT !.arg = pure_call.arg,
                                       !.fn = "extract_imports",
                                       !.names = extract_imports(pure_call.arg)]
    /\ UNCHANGED sessionVars

ApplyDetectDependencies ==
    /\ pure_call' = [NoPureCall EXCEPT !.arg = pure_call.arg,
                                       !.fn = "detect_dependencies",
                                       !.names = detect_dependencies(pure_call.arg)]
    /\ UNCHANGED sessionVars

ApplyNeedsInteractiveMode ==
    /\ pure_call' = [NoPureCall EXCEPT !.arg = pure_call.arg,
                                       !.fn = "needs_interactive_mode",
                                       !.flag = needs_interactive_mode(pure_call.arg)]
    /\ UNCHANGED sessionVars

NextPure ==
    \/ ApplyExtractPythonCode
    \/ ApplyExtractImports
    \/ ApplyDetectDependencies
    \/ ApplyNeedsInteractiveMode

\* The text is drawn; no session runs.
InitPure ==
    /\ pc = "prompt"
    /\ conversation_history = <<>>
    /\ last_generated_code = <<>>
    /\ metrics = SessionMetricsNew
    /\ code = <<>>
    /\ deps = {}
    /\ hf_token = TokenUnset
    /\ now = 0
    /\ files = <<>>
    /\ api_call = NoApiCall
    /\ exec_call = NoExecCall
    /\ install_call = NoInstallCall
    /\ written = <<>>
    /\ hist_before = <<>>
    /\ pure_call \in {[arg |-> t, fn |-> "none", text |-> <<>>, names |-> {}, flag |-> FALSE] : t \in PureInputs}

SpecPure == InitPure /\ [][NextPure]_vars

---------------------------------------------------------------------------
(* The REPL with the execution call in two steps, its start and its return: *)
(* Command::output() returns when the child has exited, and nothing in      *)
(* execute_script bounds the wait. pc is "running" while the loop waits for *)
(* a script that will exit and "blocked" while it waits for one that never  *)
(* does.                                                                    *)

\* write_and_run(&code) up to the launch of a candidate: the script is written
\* and the candidates are tried. With no script written or no candidate
\* launched the call returns its error at once and a failure is counted.
RunSpawn ==
    /\ pc = "run"
    /\ \E t \in ClockReadings, write_ok \in BOOLEAN, outs \in RunOutcomes,
          exits \in BOOLEAN :
          LET r        == write_and_run(BaseDir, code, t, files, write_ok, outs)
              launched == r.wrote /\ \E i \in 1..Len(python_cmds) : outs[i].spawned
          IN  /\ now' = t
              /\ files' = r.fs
              /\ written' = IF r.wrote THEN Append(written, r.path) ELSE written
              /\ IF ~launched
                 THEN /\ exits
                      /\ exec_call' = ExecCall("write_and_run", code, outs, r)
                      /\ metrics' = [metrics EXCEPT !.failed_executions = @ + 1]
                      /\ pc' = "prompt"
                      /\ code' = <<>>
                      /\ deps' = {}
                 ELSE /\ exec_call' =
                            IF exits THEN ExecCall("spawned", code, outs, r)
                            ELSE [ExecCall("spawned", code, outs, r)
                                    EXCEPT !.call = ExecOk(r.call.attempts, NoResult)]
                      /\ pc' = IF exits THEN "running" ELSE "blocked"
                      /\ UNCHANGED <<metrics, code, deps>>
    /\ install_call' = NoInstallCall
    /\ UNCHANGED <<conversation_history, last_generated_code, api_call, hist_before,
                   hf_token, pure_call>>

\* A variant with a limit on the wait: the call returns, and a failure is
\* counted, whether the script has exited or not.
ScriptExit_OrTimeout ==
    /\ pc \in {"running", "blocked"}
    /\ exec_call' = [exec_call EXCEPT !.op = "write_and_run"]
    /\ metrics' = [metrics EXCEPT !.failed_executions = @ + 1]
    /\ pc' = "prompt"
    /\ code' = <<>>
    /\ deps' = {}
    /\ UNCHANGED <<conversation_history, last_generated_code, api_call, hist_before,
                   hf_token, pure_call, now, files, install_call, written>>

\* The child has exited: output() returns, and the result is counted.
ScriptExit ==
    /\ pc = "running"
    /\ exec_call' = [exec_call EXCEPT !.op = "write_and_run"]
    /\ metrics' =
          IF exec_call.call.ok /\ ExecutionSuccess(exec_call.call.result)
          THEN [metrics EXCEPT !.successful_executions = @ + 1]
          ELSE [metrics EXCEPT !.failed_executions = @ + 1]
    /\ pc' = "prompt"
    /\ code' = <<>>
    /\ deps' = {}
    /\ UNCHANGED <<conversation_history, last_generated_code, api_call, hist_before,
                   hf_token, pure_call, now, files, install_call, written>>

NextBlocking ==
    \/ Quit
    \/ Help
    \/ Stats
    \/ Clear
    \/ History
    \/ Save
    \/ Refine
    \/ Plain
    \/ Generate
    \/ ConfirmExec
    \/ ConfirmInstall
    \/ Install
    \/ RunSpawn
    \/ ScriptExit

\* A child that exits is waited for to its end: the return of output() is not
\* put off for ever.
SpecBlocking == Init /\ [][NextBlocking]_vars /\ WF_vars(ScriptExit)

---------------------------------------------------------------------------
(* Properties *)

\* A generation call that has just returned an error / a text.
GenerationFailed == pc = "generate" /\ ~api_call'.ok
GenerationSucceeded == pc = "generate" /\ api_call'.ok

\* C1: whenever a generation call fails after a user turn was pushed (by a
\* plain prompt or by /refine), the history once the failure is handled is, in
\* length and in content, the history as it was before that turn was pushed.
C1_RollbackRestoresHistory ==
    [][GenerationFailed =>
          /\ conversation_history' = hist_before
          /\ Len(conversation_history') = Len(conversation_history) - 1]_vars

\* C1 witness: back at the prompt after a failed call that followed a
\* successful cycle, so that the rollback had two earlier turns to keep.
C1_Witness ==
    /\ pc = "prompt"
    /\ ~api_call.ok
    /\ Len(conversation_history) = 2
    /\ metrics.api_errors = 1

\* C2: the message sequence transmitted by a generation call is the system
\* turn followed by every turn of the history, in order: 1 + Len(history)
\* messages, the first of role system, none dropped, reordered or cut.
C2_FullHistorySent ==
    [][(pc = "generate" /\ api_call'.sent # <<>>) =>
          /\ Len(api_call'.sent) = 1 + Len(conversation_history)
          /\ api_call'.sent[1].role = "system"
          /\ api_call'.sent[1] = SystemMessage
          /\ \A i \in 1..Len(conversation_history) :
                api_call'.sent[i + 1] = conversation_history[i]]_vars

\* C2 witness: a request went out with a history of three turns.
C2_Witness == Len(api_call.sent) = 4

\* The errors execute_script returns when no candidate could be spawned.
SpawnErrors == {"Failed with command", "Failed to spawn interactive process"}

\* The script of the last write_and_run_with_mode call is on disk with the text given.
ScriptOnDisk ==
    /\ exec_call.wrote
    /\ exec_call.path \in DOMAIN files
    /\ files[exec_call.path] = exec_call.text

C5_DistinctPaths ==
    \A i, j \in 1..Len(written) : i # j => written[i] # written[j]

\* C6: every failure of a generation call is reported, counted once in
\* api_errors and nowhere else, and leaves the REPL at the prompt; the session
\* ends only by /quit or /exit read at the prompt.
C6_GenerationFailureRecoverable ==
    [][/\ GenerationFailed =>
             /\ api_call'.err # ""
             /\ metrics' = [metrics EXCEPT !.api_errors = @ + 1]
             /\ pc' = "prompt"
       /\ (pc' = "exited" /\ pc # "exited") => (pc = "prompt" /\ Quit)]_vars

\* C6 witness: with a valid credential, so that the failure was one of
\* transport, status or parsing, a further request is in progress after a
\* request failed.
C6_Witness ==
    /\ hf_token = TokenValid
    /\ pc = "generate"
    /\ metrics.api_errors = 1
    /\ metrics.total_requests = 2

\* C7: /clear leaves the history and the last code empty; while the last code
\* is empty /refine pushes no turn, counts and sends no request, and /save
\* writes no file; and the last code stops being empty only by a successful
\* generation.
C7_AfterClear ==
    [][/\ Clear => (conversation_history' = <<>> /\ last_generated_code' = <<>>)
       /\ (last_generated_code = <<>> /\ Refine) =>
             /\ UNCHANGED <<conversation_history, metrics, pc>>
             /\ api_call'.sent = <<>>
       /\ (last_generated_code = <<>> /\ Save) => files' = files
       /\ (last_generated_code = <<>> /\ last_generated_code' # <<>>) =>
             GenerationSucceeded]_vars

\* C7 witness: at the prompt with nothing left of a cycle that generated and
\* ran a code, so that /clear has been used on a non-empty session.
C7_Witness ==
    /\ pc = "prompt"
    /\ conversation_history = <<>>
    /\ last_generated_code = <<>>
    /\ metrics.successful_executions = 1

\* C8: the last code changes only by a successful generation, after which it
\* is the code extracted from the raw response, and by /clear, after which it
\* is empty; a failed generation, the confirmations, the install, the run,
\* /save, /history, /stats and /help leave it as it is.
C8_LastCodeFrame ==
    [][/\ GenerationSucceeded =>
             last_generated_code' = extract_python_code(api_call'.text)
       /\ Clear => last_generated_code' = <<>>
       /\ ~(GenerationSucceeded \/ Clear) =>
             last_generated_code' = last_generated_code]_vars

\* C8 witness: a second successful generation replaced a different last code,
\* and what the fences held was cached, not the raw reply.
C8_Witness ==
    /\ pc = "confirm"
    /\ Len(conversation_history) = 4
    /\ conversation_history[2].content # last_generated_code
    /\ api_call.text # last_generated_code
    /\ last_generated_code # <<>>

\* C9 (as claimed): with the credential absent the session is never back at
\* the prompt after handling the missing credential as the error of one
\* request.
C9_MissingCredentialIsFatal ==
    ~hf_token.set => ~(pc = "prompt" /\ metrics.api_errors > 0)

\* C10: a call that finds the credential missing fails without sending a
\* request.
C10_NoRequestWithoutCredential ==
    [][(pc = "generate" /\ ~hf_token.set) =>
          /\ ~api_call'.ok
          /\ api_call'.err = "HF_TOKEN missing in .env"
          /\ api_call'.sent = <<>>]_vars

\* C10 witness: a call has failed on the missing credential.
C10_Witness ==
    /\ ~hf_token.set
    /\ api_call.err = "HF_TOKEN missing in .env"

\* C11 (as claimed): when the code extracted from a successful generation is
\* empty, no script file is written and no interpreter is spawned for it.
C11_EmptyCodeNotRun ==
    (exec_call.op = "write_and_run" /\ exec_call.text = <<>>) =>
       (~exec_call.wrote /\ exec_call.call.attempts = <<>>)

\* C12: once the user confirmed execution, an install that failed or was
\* declined does not prevent the run: the installer's return, whatever it is,
\* and a declined install both lead to the run step, which calls
\* write_and_run on the code of the cycle; neither step changes the history,
\* the counters or the code, and neither ends the session.
C12_InstallNeverPreventsRun ==
    [][/\ pc = "install" =>
             /\ pc' = "run"
             /\ UNCHANGED <<conversation_history, metrics, code, last_generated_code>>
       /\ pc = "confirm_install" =>
             /\ pc' \in {"install", "run"}
             /\ UNCHANGED <<conversation_history, metrics, code, last_generated_code>>
       /\ pc = "run" =>
             /\ exec_call'.op = "write_and_run"
             /\ exec_call'.text = code
             /\ exec_call'.wrote => exec_call'.call.attempts # <<>>]_vars

\* C12 witness: the install has just failed under both candidates and the
\* cycle is at the run step.
C12_Witness ==
    /\ pc = "run"
    /\ ~install_call.ok
    /\ install_call.attempts = python_cmds

\* C13: the dependency set is computed from the code of the cycle when the
\* user confirms the run; the installer, whenever the REPL calls it, is given
\* exactly the external dependencies of that code, never an empty list, and
\* that code is what the run step then executes; and install_packages on an
\* empty list returns success with no candidate tried.
C13_InstallerGetsFreshDeps ==
    [][/\ (pc = "confirm" /\ pc' # "prompt") =>
             /\ deps' = detect_dependencies(code)
             /\ pc' = IF deps' = {} THEN "run" ELSE "confirm_install"
             /\ code' = code
       /\ pc = "install" =>
             /\ install_call'.packages = detect_dependencies(code)
             /\ install_call'.packages # {}
             /\ install_call'.attempts # <<>>
             /\ code' = code
       /\ (pc = "confirm_install" \/ pc = "install") => (deps' = deps /\ code' = code)
       /\ pc = "run" => exec_call'.text = code
       /\ \A outs \in [1..Len(python_cmds) -> PipOutcomes] :
             /\ install_packages({}, outs).ok
             /\ install_packages({}, outs).attempts = <<>>]_vars

\* C13 witness: in a second cycle the installer was given the dependencies of
\* the second code, which are not those of the first code of the conversation.
C13_Witness ==
    /\ pc = "run"
    /\ Len(conversation_history) = 4
    /\ install_call.attempts # <<>>
    /\ install_call.packages = detect_dependencies(conversation_history[4].content)
    /\ detect_dependencies(conversation_history[2].content) # {}
    /\ detect_dependencies(conversation_history[2].content) # install_call.packages

\* The mode an engine call spawned its interpreter in, as its return shows it:
\* the interactive arm returns the fixed marker as stdout and has errors of
\* its own, the captured arm returns what the process wrote.
SpawnedAs(call) ==
    IF call.ok
    THEN IF call.result.stdout = InteractiveMarker THEN Interactive ELSE Captured
    ELSE IF call.err \in {"Failed to spawn interactive process", "Failed to wait for process"}
         THEN Interactive
         ELSE Captured

\* C14: whenever write_and_run_with_mode or run_existing_script tries an
\* interpreter, it spawns it in the mode its caller passed, whatever
\* needs_interactive_mode says of the code.
C14_ModeIsCallersChoice ==
    exec_call.call.attempts # <<>> =>
       /\ SpawnedAs(exec_call.call) = exec_call.mode
       /\ exec_call.mode \in ExecutionModes

\* C14 witness: a code the heuristic calls interactive was run in Captured
\* mode, as asked, and its output captured.
C14_Witness ==
    /\ exec_call.op = "write_and_run"
    /\ needs_interactive_mode(exec_call.text)
    /\ exec_call.mode = Captured
    /\ exec_call.call.ok
    /\ exec_call.call.result.stdout = ProcClean.stdout

\* C15: no call of the engine removes a file: every path that exists before a
\* step exists after it, every script written so far is still there, and after
\* write_and_run_with_mode has returned a record or the failure that no
\* interpreter could be spawned, the script it wrote exists.
C15_ScriptsPersist ==
    [][/\ DOMAIN files \subseteq DOMAIN files'
       /\ \A i \in 1..Len(written') : written'[i] \in DOMAIN files'
       /\ (/\ exec_call'.op = "write_and_run"
           /\ exec_call'.call.ok \/ exec_call'.call.err \in SpawnErrors) =>
             exec_call'.path \in DOMAIN files']_vars

\* C15 witness: two scripts are on disk after a call in which no interpreter
\* could be spawned.
C15_Witness ==
    /\ Cardinality(DOMAIN files) = 2
    /\ Len(written) = 2
    /\ exec_call.op = "write_and_run"
    /\ exec_call.call.err \in SpawnErrors
    /\ exec_call.path \in DOMAIN files

\* C16: run_existing_script writes no file; on a path that does not exist it
\* fails with the not-found error and tries no interpreter; on a path that
\* exists it returns what execute_script returns for that path and mode, which
\* is what write_and_run_with_mode returns once it has written that script.
C16_RunExistingScript ==
    [][exec_call'.op = "run_existing" =>
          /\ files' = files
          /\ written' = written
          /\ ~exec_call'.wrote
          /\ IF exec_call'.path \notin DOMAIN files
             THEN /\ ~exec_call'.call.ok
                  /\ exec_call'.call.err = "Script not found"
                  /\ exec_call'.call.attempts = <<>>
             ELSE /\ exec_call'.call =
                        execute_script(exec_call'.path, exec_call'.mode, exec_call'.outs)
                  /\ exec_call'.call.attempts # <<>>
                  /\ \A t \in 0..MaxClock :
                        ScriptPath(BaseDir, t) = exec_call'.path =>
                           exec_call'.call =
                              write_and_run_with_mode(BaseDir, files[exec_call'.path],
                                                      exec_call'.mode, t, files, TRUE,
                                                      exec_call'.outs).call]_vars

\* C16 witness: a script written earlier was run again in Interactive mode
\* by the second candidate.
C16_Witness ==
    /\ exec_call.op = "run_existing"
    /\ exec_call.path \in DOMAIN files
    /\ exec_call.mode = Interactive
    /\ exec_call.call.ok
    /\ Len(exec_call.call.attempts) = 2

\* C17: in Captured mode, when the first interpreter that could be launched
\* ran the script and the script ended with an error (text on stderr, exit
\* code 1), the call returns a record carrying that stderr and that exit code,
\* and no candidate after that interpreter is tried.
C17_ScriptErrorIsAResult ==
    (exec_call.op = "write_and_run" /\ exec_call.mode = Captured /\ exec_call.wrote) =>
       \A i \in 1..Len(exec_call.outs) :
          (exec_call.outs[i] = ProcRaises /\ \A j \in 1..(i - 1) : ~exec_call.outs[j].spawned) =>
             /\ exec_call.call.ok
             /\ exec_call.call.result.stderr = ProcRaises.stderr
             /\ exec_call.call.result.stdout = ProcRaises.stdout
             /\ exec_call.call.result.exit_code = ExitSome(1)
             /\ exec_call.call.result.script_path = exec_call.path
             /\ exec_call.call.attempts = SubSeq(python_cmds, 1, i)

\* C17 witness: python3 ran a script that raised, python would have run it
\* cleanly, and the call returned the failing run.
C17_Witness ==
    /\ exec_call.op = "write_and_run"
    /\ exec_call.mode = Captured
    /\ exec_call.outs = <<ProcRaises, ProcClean>>
    /\ exec_call.call.ok
    /\ exec_call.call.result.exit_code = ExitSome(1)
    /\ exec_call.call.attempts = <<"python3">>

\* C18: in every step other than /clear the history stays as it is, or gets
\* one turn appended at its end with every earlier turn kept in place, or,
\* when a generation call failed, loses its last turn only, that turn being
\* the user turn pushed in this cycle; an assistant turn is never removed.
C18_HistoryAppendOnly ==
    [][~Clear =>
          LET h == conversation_history
              g == conversation_history'
          IN  \/ g = h
              \/ /\ Len(g) = Len(h) + 1
                 /\ \A i \in 1..Len(h) : g[i] = h[i]
                 /\ g[Len(g)].role \in {"user", "assistant"}
              \/ /\ GenerationFailed
                 /\ Len(h) >= 1
                 /\ g = SubSeq(h, 1, Len(h) - 1)
                 /\ g = hist_before
                 /\ h[Len(h)].role = "user"]_vars

\* C18 witness: the second request of a conversation failed and the user and
\* assistant turns of the first cycle are what the history holds.
C18_Witness ==
    /\ pc = "prompt"
    /\ ~api_call.ok
    /\ metrics.total_requests = 2
    /\ Len(conversation_history) = 2
    /\ conversation_history[1].role = "user"
    /\ conversation_history[2].role = "assistant"

\* C19: a /refine that starts a request has a last code and a non-empty
\* change, appends one user turn whose content is the refine template followed
\* by the trimmed change and nothing else (no copy of the last code), counts
\* one request and leaves the last code as it is; the request then sent
\* carries the whole history. A /refine without a last code, or with an empty
\* change, appends no turn, sends nothing and changes no counter.
C19_RefineRequest ==
    [][/\ Refine =>
             IF pc' = "generate"
             THEN /\ last_generated_code # <<>>
                  /\ \E rline \in RefineLines :
                        /\ Trim(rline) # <<>>
                        /\ conversation_history' =
                              Append(conversation_history,
                                     Message("user", RefinePrefix \o Trim(rline)))
                  /\ ~Contains(conversation_history'[Len(conversation_history')].content,
                               last_generated_code)
                  /\ metrics' = [metrics EXCEPT !.total_requests = @ + 1]
                  /\ last_generated_code' = last_generated_code
             ELSE /\ UNCHANGED <<pc, conversation_history, metrics, last_generated_code>>
                  /\ api_call'.sent = <<>>
       /\ (Refine /\ last_generated_code = <<>>) => pc' = "prompt"
       /\ (/\ pc = "generate"
           /\ StartsWith(conversation_history[Len(conversation_history)].content, RefinePrefix)
           /\ api_call'.sent # <<>>) =>
             api_call'.sent = <<SystemMessage>> \o conversation_history]_vars

\* C19 witness: the request of a /refine went out with the turns of the first
\* cycle and the refine turn.
C19_Witness ==
    /\ Len(api_call.sent) = 4
    /\ api_call.sent[4] = Message("user", RefinePrefix \o <<"f", "a", "s", "t">>)
    /\ api_call.sent[3].role = "assistant"
    /\ last_generated_code # <<>>

\* C20: the counters change only when a request is taken, when a generation
\* call fails and when a run returns: /help, /stats, /clear, /history and
\* /save, a /refine that starts no request, and a declined execution leave the
\* four counters as they are; /clear in particular does not reset them.
C20_MetricsFrame ==
    [][/\ (Help \/ Stats \/ Clear \/ History \/ Save) => metrics' = metrics
       /\ (Refine /\ pc' = "prompt") => metrics' = metrics
       /\ (pc = "confirm" /\ pc' = "prompt") => metrics' = metrics
       /\ metrics' # metrics =>
             \/ pc = "prompt" /\ pc' = "generate"
             \/ GenerationFailed
             \/ pc = "run"]_vars

\* C20 witness: the conversation was cleared in a session that had counted
\* two requests and one error, and the counters are still there.
C20_Witness ==
    /\ pc = "prompt"
    /\ conversation_history = <<>>
    /\ metrics.total_requests = 2
    /\ metrics.api_errors = 1
    /\ metrics.failed_executions = 1

\* The length of the longest run of identifier characters and dots of t that
\* starts at j: a dotted module path.
DottedPathLen(t, j) ==
    LET stops == {m \in 0..(Len(t) - j + 1) :
                     j + m > Len(t) \/ ~(IsIdentChar(t[j + m]) \/ t[j + m] = ".")}
    IN  IF j > Len(t) THEN 0 ELSE Min(stops)

\* The top-level package a trimmed line names when it starts with an import
\* statement or with a from ... import statement, the submodule path cut off.
StatementPackage(t) ==
    LET i == KeywordName(t, ImportKw)
        f == KeywordName(t, FromKw)
        a == f.at + DottedPathLen(t, f.at)
        w == WsRunLen(t, a)
    IN  (IF i.len > 0 THEN {SubSeq(t, i.at, i.at + i.len - 1)} ELSE {})
        \cup (IF f.len > 0 /\ w >= 1 /\ IsPrefixAt(t, a + w, ImportKw)
              THEN {SubSeq(t, f.at, f.at + f.len - 1)} ELSE {})

\* The packages of the import statements of a code, line by line.
StatementPackages(text) ==
    LET ls == Lines(text)
    IN  UNION {StatementPackage(Trim(ls[i])) : i \in 1..Len(ls)}

\* C21 (as claimed): detect_dependencies returns exactly the top-level
\* packages of the lines that start with an import or a from ... import
\* statement, submodule path cut off, minus the standard-library names.
C21_DependenciesOfStatements ==
    pure_call.fn = "detect_dependencies" =>
       /\ pure_call.names = {n \in StatementPackages(pure_call.arg) : n \notin STDLIB_MODULES}
       /\ pure_call.names \cap STDLIB_MODULES = {}
       /\ pure_call.names = detect_dependencies(pure_call.arg)

\* A line whose first non-blank character is the comment marker.
IsCommentLine(l) ==
    LET w == WsRunLen(l, 1)
    IN  1 + w <= Len(l) /\ l[1 + w] = "#"

CommentLines == {l \in ImportLines : IsCommentLine(l)}

\* The lines ls with the line c put after the first i of them.
WithLineAt(ls, i, c) == SubSeq(ls, 1, i) \o <<c>> \o SubSeq(ls, i + 1, Len(ls))

\* C22: a comment line never contributes a package name: the result of
\* extract_imports on a code is its result on the code without its comment
\* lines, and on the code with one more comment line put anywhere.
C22_CommentLinesIgnored ==
    pure_call.fn = "extract_imports" =>
        LET ls == Lines(pure_call.arg)
        IN  /\ pure_call.names =
                  extract_imports(JoinLines(SelectSeq(ls, LAMBDA l : ~IsCommentLine(l))))
            /\ \A c \in CommentLines : \A i \in 0..Len(ls) :
                  extract_imports(JoinLines(WithLineAt(ls, i, c))) = pure_call.names

\* A code with a comment line that spells an import and a real import was scanned.
C22_Witness ==
    /\ pure_call.fn = "extract_imports"
    /\ pure_call.names # {}
    /\ \E i \in 1..Len(Lines(pure_call.arg)) :
          /\ IsCommentLine(Lines(pure_call.arg)[i])
          /\ Contains(Lines(pure_call.arg)[i], ImportKw)

\* C23: for every text T without a triple backtick, extract_python_code of the
\* python-tagged fence, a newline, T, a newline and the closing fence is T
\* trimmed.
C23_FencedRoundTrip ==
    pure_call.fn = "extract_python_code" =>
        \A T \in InnerTexts :
            pure_call.arg = Fence \o PythonTag \o <<"\n">> \o T \o <<"\n">> \o Fence
                => pure_call.text = Trim(T)

\* A python-tagged block whose content starts with a blank line and ends with
\* a blank was extracted, and so was one with whitespace-only content.
C23_Witness ==
    /\ pure_call.fn = "extract_python_code"
    /\ pure_call.arg = Fence \o PythonTag \o <<"\n">> \o <<"\n", "a", " ">> \o <<"\n">> \o Fence
    /\ pure_call.text = <<"a">>

\* C24 (as claimed): for every response with a fenced block, whatever the
\* language tag of its opening fence and whatever commentary surrounds it,
\* extract_python_code returns the trimmed content of the first block, and no
\* fence appears in the result.
C24_AnyTagFirstBlock ==
    pure_call.fn = "extract_python_code" =>
        \A pre \in Preambles : \A tag \in FenceTags :
        \A inner \in InnerTexts : \A post \in Postambles :
            pure_call.arg = pre \o FencedBlock(tag, inner) \o post
                => /\ pure_call.text = Trim(inner)
                   /\ ~Contains(pure_call.text, Fence)

\* The replies that arrive whole with a success status.
SuccessReplies ==
    {net \in NetOutcomes : net.transport_ok /\ net.read_ok /\ IsSuccess(net.status)}

\* C25: with a usable credential and a success status, the call returns the
\* content of the first choice; a well-formed body with zero choices fails
\* with the no-choices error, a body that is not valid JSON with the parse
\* error, the two differ, and neither returns a text.
C25_FirstChoiceOrParseFailure ==
    /\ (pc = "generate" /\ hf_token.set /\ HeaderValueOk(hf_token.value)) =>
          \A net \in SuccessReplies :
              LET r == generate_code_with_history(hf_token, conversation_history, net)
              IN  /\ (net.json_ok /\ net.choices # <<>>) =>
                         r.ok /\ r.text = net.choices[1].content
                  /\ (net.json_ok /\ net.choices = <<>>) =>
                         ~r.ok /\ r.text = <<>>
                               /\ r.err = "No choices in Hugging Face response"
                  /\ ~net.json_ok =>
                         ~r.ok /\ r.text = <<>>
                               /\ r.err = "Failed to parse Hugging Face JSON response"
    /\ api_call.ok /\ api_call.sent # <<>> =>
          \E net \in SuccessReplies :
              net.json_ok /\ net.choices # <<>> /\ api_call.text = net.choices[1].content
    /\ api_call.err \in {"No choices in Hugging Face response",
                         "Failed to parse Hugging Face JSON response"} =>
          ~api_call.ok /\ api_call.text = <<>>

\* A generation call has just failed on a well-formed reply without choices.
C25_Witness ==
    /\ api_call.err = "No choices in Hugging Face response"
    /\ api_call.sent # <<>>
    /\ pc = "prompt"

\* The nine interactivity indicators, as the claim lists them.
Indicators ==
    {<<"p", "y", "g", "a", "m", "e">>, <<"i", "n", "p", "u", "t", "(">>,
     <<"t", "u", "r", "t", "l", "e">>, <<"t", "k", "i", "n", "t", "e", "r">>,
     <<"c", "u", "r", "s", "e", "s">>, <<"g", "e", "t", "p", "a", "s", "s">>,
     <<"c", "v", "2", ".", "i", "m", "s", "h", "o", "w">>,
     <<"p", "l", "t", ".", "s", "h", "o", "w">>,
     <<"m", "a", "t", "p", "l", "o", "t", "l", "i", "b">>}

\* C26: needs_interactive_mode answers true exactly when its argument contains
\* one of the nine indicators, and the call leaves the argument and the whole
\* session state as they were.
C26_InteractiveExactlyOnIndicator ==
    [][pure_call'.fn = "needs_interactive_mode" =>
          /\ pure_call'.flag = (\E k \in Indicators : Contains(pure_call.arg, k))
          /\ pure_call'.arg = pure_call.arg
          /\ UNCHANGED sessionVars]_vars

\* The heuristic answered true on a code that calls plt.show.
C26_Witness ==
    /\ pure_call.fn = "needs_interactive_mode"
    /\ pure_call.flag = TRUE
    /\ Contains(pure_call.arg, <<"p", "l", "t", ".", "s", "h", "o", "w">>)

\* The positions of the session at which the REPL waits for a line of input.
WaitingForInput == pc \in {"prompt", "confirm", "confirm_install"}

\* C27: whenever the REPL waits for input, the stored history holds no system
\* turn, has even length, and alternates user, assistant from a user turn.
C27_HistoryAlternates ==
    WaitingForInput =>
        /\ \A i \in 1..Len(conversation_history) : conversation_history[i].role # "system"
        /\ Len(conversation_history) % 2 = 0
        /\ \A i \in 1..Len(conversation_history) :
              conversation_history[i].role = IF i % 2 = 1 THEN "user" ELSE "assistant"

\* The REPL waits at its prompt with an answered turn stored, a later
\* generation having just failed and its user turn having been popped.
C27_Witness ==
    /\ pc = "prompt"
    /\ Len(conversation_history) >= 2
    /\ ~api_call.ok
    /\ api_call.sent # <<>>

\* C28: whenever the REPL waits for input, the cached code agrees with the
\* history: a non-empty history ends with an assistant turn whose content is
\* the cached code, and with an empty history the cached code is empty.
C28_CacheAgreesWithHistory ==
    WaitingForInput =>
        IF conversation_history = <<>>
        THEN last_generated_code = <<>>
        ELSE LET last == conversation_history[Len(conversation_history)]
             IN  last.role = "assistant" /\ last.content = last_generated_code

\* The REPL waits at its prompt after two successful generations that gave
\* different codes: two answered turns are stored and the later code is cached.
C28_Witness ==
    /\ pc = "prompt"
    /\ Len(conversation_history) = 4
    /\ last_generated_code # <<>>
    /\ conversation_history[2].content # last_generated_code

\* This step appends one assistant turn to the stored history.
AssistantTurnAppended ==
    /\ Len(conversation_history') = Len(conversation_history) + 1
    /\ conversation_history'[Len(conversation_history')].role = "assistant"

\* C29 (as claimed): the assistant turn is appended only by the step that runs
\* the script, once its result is known.
C29_Original ==
    [][AssistantTurnAppended => pc = "run" /\ exec_call'.op = "write_and_run"]_vars

\* C29 (amended): the assistant turn is appended by the step in which the
\* generation call returns successfully, with the extracted code as content,
\* before the user is asked whether to run; the confirmation, installation and
\* execution steps of the cycle leave the history as it is.
C29_TurnAppendedAtGeneration ==
    [][/\ AssistantTurnAppended =>
             /\ pc = "generate" /\ pc' = "confirm" /\ api_call'.ok
             /\ conversation_history' =
                   Append(conversation_history,
                          Message("assistant", extract_python_code(api_call'.text)))
       /\ (pc = "generate" /\ pc' = "confirm") => AssistantTurnAppended
       /\ pc \in {"confirm", "confirm_install", "install", "run"} =>
             UNCHANGED conversation_history]_vars

\* The script of a cycle has just been run, and the history ends with the
\* assistant turn that holds the code that was run.
C29_Witness ==
    /\ pc = "prompt"
    /\ exec_call.op = "write_and_run"
    /\ conversation_history # <<>>
    /\ conversation_history[Len(conversation_history)] = Message("assistant", exec_call.text)

\* The outcomes counted so far: API errors and executions, successful or failed.
OutcomesCounted(m) == m.api_errors + m.successful_executions + m.failed_executions

\* The positions of a pipeline cycle whose request is counted and whose outcome
\* is not yet.
InCycle == pc \in {"generate", "confirm", "confirm_install", "install", "run"}

\* C30: no counter ever decreases and the outcomes counted never exceed the
\* requests counted; a request is counted once, when the user turn is pushed,
\* and then at most one outcome is counted for it, once: an API error when the
\* generation fails, one execution (successful or failed) when the script is
\* run, nothing when execution is declined.
C30_CountersMonotoneAndBounded ==
    [][/\ OutcomesCounted(metrics) + (IF InCycle THEN 1 ELSE 0) <= metrics.total_requests
       /\ OutcomesCounted(metrics') + (IF InCycle' THEN 1 ELSE 0) <= metrics'.total_requests
       /\ metrics'.total_requests - metrics.total_requests \in {0, 1}
       /\ OutcomesCounted(metrics') - OutcomesCounted(metrics) \in {0, 1}
       /\ metrics'.api_errors >= metrics.api_errors
       /\ metrics'.successful_executions >= metrics.successful_executions
       /\ metrics'.failed_executions >= metrics.failed_executions
       /\ metrics'.total_requests # metrics.total_requests <=>
             (pc = "prompt" /\ pc' = "generate")
       /\ metrics'.api_errors # metrics.api_errors <=>
             (pc = "generate" /\ pc' = "prompt")
       /\ (metrics'.successful_executions # metrics.successful_executions
             \/ metrics'.failed_executions # metrics.failed_executions) <=>
             (pc = "run" /\ pc' = "prompt")
       /\ (pc = "confirm" /\ pc' = "prompt") => UNCHANGED metrics]_vars

\* Two requests were made: the generation of one failed, the execution of the
\* other was declined, and the REPL is back at its prompt.
C30_Witness ==
    /\ pc = "prompt"
    /\ metrics.total_requests = 2
    /\ metrics.api_errors = 1
    /\ metrics.successful_executions = 0
    /\ metrics.failed_executions = 0
    /\ Len(conversation_history) = 2

\* What the package manager does under python3 and under python.
PipRuns == [1..2 -> PipOutcomes]

\* C31: install_packages with a non-empty list tries python3, then python; it
\* goes on to python both when python3 could not be launched and when its
\* package manager exited with failure, whereas execute_script returns at the
\* first candidate launched; it succeeds as soon as one run exits with
\* success, and otherwise fails with the error of the last candidate tried.
C31_InstallTriesBothCandidates ==
    /\ pc = "install" =>
          /\ deps # {}
          /\ \A outs \in PipRuns :
                LET r == install_packages(deps, outs)
                IN  /\ r.ok <=> \E i \in 1..2 : outs[i] = "success"
                    /\ outs[1] = "success" => r.attempts = <<"python3">>
                    /\ outs[1] \in {"not_found", "failed"} =>
                          r.attempts = <<"python3", "python">>
                    /\ ~r.ok =>
                          /\ r.last_cmd = "python"
                          /\ r.err = IF outs[2] = "failed" THEN "pip install failed"
                                     ELSE "Failed to run pip"
          /\ \A outs \in RunOutcomes :
                (outs[1].spawned /\ outs[1].exit_code = ExitSome(1)) =>
                    execute_script(ScriptPath(BaseDir, now), Captured, outs).attempts
                       = <<"python3">>
    /\ install_call.attempts # <<>> =>
          /\ install_call.attempts \in {<<"python3">>, <<"python3", "python">>}
          /\ install_call.attempts = <<"python3">> => install_call.ok
          /\ ~install_call.ok =>
                install_call.last_cmd = "python"
                   /\ install_call.err \in {"pip install failed", "Failed to run pip"}

\* An installation has just failed under both candidates, the package manager
\* having exited with failure under the last one, and the script is run next.
C31_Witness ==
    /\ pc = "run"
    /\ install_call.attempts = <<"python3", "python">>
    /\ ~install_call.ok
    /\ install_call.last_cmd = "python"
    /\ install_call.err = "pip install failed"

\* A generation call or an execution call has started and has not returned.
CallInFlight == pc \in {"generate", "running", "blocked"}

\* What a step may do while a call is in flight: it starts no generation call
\* and no execution call, and it reads no prompt (nothing is cleared, saved or
\* requested, and the loop is not left); the only step there is is the return
\* of the call in flight, and for a script that never exits there is none.
OnlyTheCallReturns ==
    CallInFlight =>
        /\ metrics'.total_requests = metrics.total_requests
        /\ written' = written
        /\ files' = files
        /\ pc' \notin {"exited", "run", "install"}
        /\ pc = "generate" => /\ pc' \in {"confirm", "prompt"}
                              /\ api_call'.sent # <<>> \/ ~api_call'.ok
        /\ pc = "running" => /\ pc' = "prompt"
                             /\ exec_call'.op = "write_and_run"
                             /\ UNCHANGED <<conversation_history, last_generated_code>>
        /\ pc = "blocked" => UNCHANGED vars

\* A call starts only from a position where none is in flight.
CallsStartOneAtATime ==
    /\ metrics'.total_requests # metrics.total_requests => pc = "prompt"
    /\ written' # written => pc = "run"
    /\ pc' \in {"running", "blocked"} => pc = "run"

\* C32: the pipeline is strictly sequential: while a generation or execution
\* call is in flight no other call starts and no prompt is read; execution has
\* no timeout and no abort, so after a confirmed run the session is back at
\* the prompt if the script exits, and never if it does not.
C32_SequentialAndBlocking ==
    /\ [][(pc' # pc \/ metrics' # metrics \/ written' # written) =>
             OnlyTheCallReturns /\ CallsStartOneAtATime]_vars
    /\ [][pc = "blocked" => pc' = "blocked"]_vars
    /\ (pc = "running") ~> (pc = "prompt")

\* The loop waits for a spawned script that never exits.
C32_Witness ==
    /\ pc = "blocked"
    /\ exec_call.op = "spawned"
    /\ written # <<>>
    /\ metrics.successful_executions + metrics.failed_executions + metrics.api_errors
          < metrics.total_requests

=============================================================================
